---- MODULE Spec2Model ----
(***************************************************************************)
(* Kaseketi vet clinic: the persistence gateway (DatabaseStorage) run by   *)
(* concurrent request handlers, the exam state of the New Exam page with   *)
(* its save mutation, and the exam report renderer.                        *)
(*                                                                         *)
(* Every `await` on the database is one atomic step of a call; a call      *)
(* wakes up between two of its awaits only after the earlier query has     *)
(* been answered, so other calls interleave exactly at the awaits.         *)
(***************************************************************************)
EXTENDS Integers, Sequences, FiniteSets, TLC

\* ------------------------------------------------------------------ bounds
NProcs == 2
MaxCalls == 4
MaxCreateCalls == 3
MaxExams == 2
MaxFindings == 2
MaxEdits == 2
MaxOptions == 2
MaxPageEdits == 3

Procs == 1..NProcs
ExamIds == 1..MaxExams
FindingIds == 1..MaxFindings

\* ------------------------------------------------------------------ values
\* A missing row (a select that returns no row, `undefined`).
NoRow == [exists |-> FALSE]

Null == "null"
Absent == "absent"

PatientIds == {"p1", "p2"}
SettingsIds == {"s1", "s2"}
UserIds == {"vet", "adm", "tech", "nobody"}

examStatusEnum == {"draft", "in-progress", "completed", "signed"}

\* The values of InsertExam that the calls are tried on.
InsertExamValues ==
  [patientId : PatientIds, status : {Absent, "signed"},
   examinerId : {Null}, planNotes : {"n0"}]

\* Partial<InsertExam>, as PATCH /api/exams/:id hands it to updateExam.
UpdateExamValues ==
  {[status |-> Absent, planNotes |-> "n1"], [status |-> "completed", planNotes |-> Absent],
   [status |-> "signed", planNotes |-> Absent]}

SystemNames == {"general", "skin"}

InsertFindingValues == [examId : ExamIds, systemName : SystemNames, notes : {"f0"}]

\* Partial<InsertExamFinding>; examId 0 stands for an absent examId.
UpdateFindingValues ==
  {[examId |-> 0, notes |-> "f1"]} \cup {[examId |-> e, notes |-> Absent] : e \in ExamIds}

\* The findings arrays of createExamWithFindings that the calls are tried on
\* (exam_id is filled in by the call): one array of each length up to MaxFindings.
TxFindingSeqs ==
  {[k \in 1..n |-> [systemName |-> IF k % 2 = 1 THEN "general" ELSE "skin", notes |-> "f0"]] :
     n \in 0..MaxFindings}

\* ------------------------------------------------------------------ state
VARIABLES
  patients,       \* patients table: id -> row
  users,          \* users table: id -> row
  exams,          \* exams table: id -> row
  examFindings,   \* exam_findings table: id -> row
  nextExamId,     \* the next fresh exams.id (gen_random_uuid never repeats)
  nextFindingId,  \* the next fresh exam_findings.id
  pc,             \* per caller: the call in flight and where it stands
  result,         \* how the call that ended last ended
  budget,         \* calls that may still be started
  signOk,         \* history: successful signExam calls per exam
  atSign,         \* history: the exam row and its findings when first signed
  examState,      \* the ExamState held by the New Exam page
  report,         \* generatedReport: the report rendered from examState
  completedView,  \* completedSystems: the memoized set of complete systems
  sessions,       \* the session store: the user ids serialized into live sessions
  clinicSettings  \* clinic_settings table: id -> row

vars ==
  <<patients, users, exams, examFindings, nextExamId, nextFindingId, pc, result,
    budget, signOk, atSign, examState, report, completedView, sessions, clinicSettings>>

tables == <<patients, users, exams, examFindings>>
hist == <<signOk, atSign>>
client == <<examState, report, completedView>>
siteVars == <<sessions, clinicSettings>>

Idle == [op |-> "idle"]
NoResult == [op |-> "none", res |-> "none"]
NoSnap == [taken |-> FALSE]

\* The findings rows of exam e (getExamFindings).
getExamFindings(ef, e) ==
  {[id |-> f, row |-> ef[f]] : f \in {g \in FindingIds : ef[g].exists /\ ef[g].examId = e}}

\* The call of p ends with outcome r.
Finish(p, r) ==
  /\ pc' = [pc EXCEPT ![p] = Idle]
  /\ result' = r

\* p may start a call.
CanStart(p) == pc[p] = Idle /\ budget > 0

InitTables ==
  /\ patients = [i \in PatientIds |->
                   IF i = "p1" THEN [exists |-> TRUE, isActive |-> TRUE] ELSE NoRow]
  /\ users = [u \in UserIds |->
                CASE u = "vet" -> [exists |-> TRUE, role |-> "veterinarian", isActive |-> TRUE]
                  [] u = "adm" -> [exists |-> TRUE, role |-> "admin", isActive |-> TRUE]
                  [] u = "tech" -> [exists |-> TRUE, role |-> "technician", isActive |-> TRUE]
                  [] OTHER -> NoRow]
  /\ exams = [e \in ExamIds |-> NoRow]
  /\ examFindings = [f \in FindingIds |-> NoRow]
  /\ nextExamId = 1
  /\ nextFindingId = 1
  /\ pc = [p \in Procs |-> Idle]
  /\ result = NoResult
  /\ signOk = [e \in ExamIds |-> 0]
  /\ atSign = [e \in ExamIds |-> NoSnap]
  /\ sessions = {}
  /\ clinicSettings = [s \in SettingsIds |-> NoRow]


\* ------------------------------------------------------------ softDeletePatient
softDeletePatient_getPatient(p, id) ==
  /\ CanStart(p)
  /\ budget' = budget - 1
  /\ IF ~patients[id].exists
       THEN Finish(p, [op |-> "softDeletePatient", res |-> "NotFound"])
       ELSE IF ~patients[id].isActive
         THEN Finish(p, [op |-> "softDeletePatient", res |-> "ValidationError"])
         ELSE /\ pc' = [pc EXCEPT ![p] = [op |-> "softDeletePatient", step |-> "update", id |-> id]]
              /\ UNCHANGED result
  /\ UNCHANGED <<client, siteVars, tables, nextExamId, nextFindingId, hist>>

softDeletePatient_update(p) ==
  /\ pc[p].op = "softDeletePatient" /\ pc[p].step = "update"
  /\ patients' = [patients EXCEPT ![pc[p].id].isActive = FALSE]
  /\ Finish(p, [op |-> "softDeletePatient", res |-> "ok"])
  /\ UNCHANGED <<client, siteVars, users, exams, examFindings, nextExamId, nextFindingId, budget, hist>>

\* ------------------------------------------------------------------ createExam
\* The row the insert stores: status falls back to the column default.
examRowOf(exam) ==
  [exists |-> TRUE, patientId |-> exam.patientId,
   status |-> IF exam.status = Absent THEN "draft" ELSE exam.status,
   examinerId |-> exam.examinerId, planNotes |-> exam.planNotes]

createExam_getPatient(p, exam) ==
  /\ CanStart(p)
  /\ budget' = budget - 1
  /\ IF ~patients[exam.patientId].exists
       THEN Finish(p, [op |-> "createExam", res |-> "NotFound"]) /\ UNCHANGED nextExamId
       ELSE IF ~patients[exam.patientId].isActive
         THEN Finish(p, [op |-> "createExam", res |-> "ValidationError"]) /\ UNCHANGED nextExamId
         ELSE /\ nextExamId <= MaxExams
              /\ pc' = [pc EXCEPT ![p] =
                          [op |-> "createExam", step |-> "insert", exam |-> exam, id |-> nextExamId]]
              /\ nextExamId' = nextExamId + 1
              /\ UNCHANGED result
  /\ UNCHANGED <<client, siteVars, tables, nextFindingId, hist>>

createExam_insert(p) ==
  /\ pc[p].op = "createExam" /\ pc[p].step = "insert"
  /\ exams' = [exams EXCEPT ![pc[p].id] = examRowOf(pc[p].exam)]
  /\ Finish(p, [op |-> "createExam", res |-> "ok"])
  /\ UNCHANGED <<client, siteVars, patients, users, examFindings, nextExamId, nextFindingId, budget, hist>>

\* ------------------------------------------------------------------ updateExam
\* PATCH /api/exams/:id refuses a body whose status is 'signed' before it calls
\* updateExam.
patchExamGuard(examData) == examData.status # "signed"

\* set(updateData): the columns present in examData overwrite the row's.
examSet(row, examData) ==
  [row EXCEPT !.status = IF examData.status = Absent THEN @ ELSE examData.status,
              !.planNotes = IF examData.planNotes = Absent THEN @ ELSE examData.planNotes]

updateExam_getExam(p, id, examData) ==
  /\ CanStart(p)
  /\ budget' = budget - 1
  /\ IF ~patchExamGuard(examData)
       THEN Finish(p, [op |-> "updateExam", res |-> "InvalidOperation"])
       ELSE IF ~exams[id].exists
         THEN Finish(p, [op |-> "updateExam", res |-> "NotFound"])
         ELSE IF exams[id].status = "signed"
           THEN Finish(p, [op |-> "updateExam", res |-> "ValidationError"])
           ELSE /\ pc' = [pc EXCEPT ![p] =
                            [op |-> "updateExam", step |-> "update", id |-> id, examData |-> examData]]
                /\ UNCHANGED result
  /\ UNCHANGED <<client, siteVars, tables, nextExamId, nextFindingId, hist>>

updateExam_update(p) ==
  /\ pc[p].op = "updateExam" /\ pc[p].step = "update"
  /\ IF exams[pc[p].id].exists
       THEN /\ exams' = [exams EXCEPT ![pc[p].id] = examSet(@, pc[p].examData)]
            /\ Finish(p, [op |-> "updateExam", res |-> "ok"])
       ELSE /\ UNCHANGED exams
            /\ Finish(p, [op |-> "updateExam", res |-> "UPDATE_FAILED"])
  /\ UNCHANGED <<client, siteVars, patients, users, examFindings, nextExamId, nextFindingId, budget, hist>>

\* -------------------------------------------------------------------- signExam
\* The status guard of signExam on the row it has read.
signStatusGuard(existing) == existing.status # "signed"

\* A role guard that lets every existing user through.
signRoleGuard_anyRole(examiner) == TRUE

\* The role guard of signExam on the examiner it has read.
signRoleGuard(examiner) == examiner.role = "veterinarian" \/ examiner.role = "admin"

signExam_getExam(p, id, examinerId) ==
  /\ CanStart(p)
  /\ budget' = budget - 1
  /\ IF ~exams[id].exists
       THEN Finish(p, [op |-> "signExam", res |-> "NotFound", id |-> id, examinerId |-> examinerId])
       ELSE IF ~signStatusGuard(exams[id])
         THEN Finish(p, [op |-> "signExam", res |-> "AlreadySigned", id |-> id, examinerId |-> examinerId])
         ELSE /\ pc' = [pc EXCEPT ![p] =
                          [op |-> "signExam", step |-> "getUser", id |-> id, examinerId |-> examinerId]]
              /\ UNCHANGED result
  /\ UNCHANGED <<client, siteVars, tables, nextExamId, nextFindingId, hist>>

signExam_getUser(p) ==
  /\ pc[p].op = "signExam" /\ pc[p].step = "getUser"
  /\ LET examiner == users[pc[p].examinerId] IN
     IF ~examiner.exists
       THEN Finish(p, [op |-> "signExam", res |-> "UserNotFound", id |-> pc[p].id,
                       examinerId |-> pc[p].examinerId])
       ELSE IF ~signRoleGuard(examiner)
         THEN Finish(p, [op |-> "signExam", res |-> "RoleRejected", id |-> pc[p].id,
                         examinerId |-> pc[p].examinerId])
         ELSE /\ pc' = [pc EXCEPT ![p].step = "update"]
              /\ UNCHANGED result
  /\ UNCHANGED <<client, siteVars, tables, nextExamId, nextFindingId, budget, hist>>

\* set({status: "signed", examinerId}).
signSet(row, examinerId) == [row EXCEPT !.status = "signed", !.examinerId = examinerId]

signExam_update(p) ==
  /\ pc[p].op = "signExam" /\ pc[p].step = "update"
  /\ LET id == pc[p].id IN
     IF exams[id].exists
       THEN /\ exams' = [exams EXCEPT ![id] = signSet(@, pc[p].examinerId)]
            /\ signOk' = [signOk EXCEPT ![id] = @ + 1]
            /\ atSign' = [atSign EXCEPT ![id] =
                            IF @.taken THEN @
                            ELSE [taken |-> TRUE, row |-> exams'[id],
                                  findings |-> getExamFindings(examFindings, id)]]
            /\ Finish(p, [op |-> "signExam", res |-> "ok", id |-> id,
                          examinerId |-> pc[p].examinerId])
       ELSE /\ UNCHANGED <<exams, hist>>
            /\ Finish(p, [op |-> "signExam", res |-> "UPDATE_FAILED", id |-> id,
                          examinerId |-> pc[p].examinerId])
  /\ UNCHANGED <<client, siteVars, patients, users, examFindings, nextExamId, nextFindingId, budget>>

\* ------------------------------------------------------------------ deleteExam
\* exam_findings.exam_id references exams.id with ON DELETE CASCADE.
cascadeDelete(ef, id) ==
  [f \in FindingIds |-> IF ef[f].exists /\ ef[f].examId = id THEN NoRow ELSE ef[f]]

deleteExam_getExam(p, id) ==
  /\ CanStart(p)
  /\ budget' = budget - 1
  /\ IF ~exams[id].exists
       THEN Finish(p, [op |-> "deleteExam", res |-> "NotFound"])
       ELSE IF exams[id].status = "signed"
         THEN Finish(p, [op |-> "deleteExam", res |-> "ValidationError"])
         ELSE /\ pc' = [pc EXCEPT ![p] = [op |-> "deleteExam", step |-> "delete", id |-> id]]
              /\ UNCHANGED result
  /\ UNCHANGED <<client, siteVars, tables, nextExamId, nextFindingId, hist>>

deleteExam_delete(p) ==
  /\ pc[p].op = "deleteExam" /\ pc[p].step = "delete"
  /\ exams' = [exams EXCEPT ![pc[p].id] = NoRow]
  /\ examFindings' = cascadeDelete(examFindings, pc[p].id)
  /\ Finish(p, [op |-> "deleteExam", res |-> "ok"])
  /\ UNCHANGED <<client, siteVars, patients, users, nextExamId, nextFindingId, budget, hist>>

\* ----------------------------------------------------------- createExamFinding
findingRowOf(finding) ==
  [exists |-> TRUE, examId |-> finding.examId, systemName |-> finding.systemName,
   notes |-> finding.notes]

createExamFinding_getExam(p, finding) ==
  /\ CanStart(p)
  /\ budget' = budget - 1
  /\ IF ~exams[finding.examId].exists
       THEN Finish(p, [op |-> "createExamFinding", res |-> "NotFound"]) /\ UNCHANGED nextFindingId
       ELSE IF exams[finding.examId].status = "signed"
         THEN Finish(p, [op |-> "createExamFinding", res |-> "ValidationError"])
              /\ UNCHANGED nextFindingId
         ELSE /\ nextFindingId <= MaxFindings
              /\ pc' = [pc EXCEPT ![p] =
                          [op |-> "createExamFinding", step |-> "insert", finding |-> finding,
                           id |-> nextFindingId]]
              /\ nextFindingId' = nextFindingId + 1
              /\ UNCHANGED result
  /\ UNCHANGED <<client, siteVars, tables, nextExamId, hist>>

\* The insert fails on the foreign key when the exam row is gone by now.
createExamFinding_insert(p) ==
  /\ pc[p].op = "createExamFinding" /\ pc[p].step = "insert"
  /\ IF exams[pc[p].finding.examId].exists
       THEN /\ examFindings' = [examFindings EXCEPT ![pc[p].id] = findingRowOf(pc[p].finding)]
            /\ Finish(p, [op |-> "createExamFinding", res |-> "ok"])
       ELSE /\ UNCHANGED examFindings
            /\ Finish(p, [op |-> "createExamFinding", res |-> "DbError"])
  /\ UNCHANGED <<client, siteVars, patients, users, exams, nextExamId, nextFindingId, budget, hist>>

\* ----------------------------------------------------------- updateExamFinding
findingSet(row, findingData) ==
  [row EXCEPT !.examId = IF findingData.examId = 0 THEN @ ELSE findingData.examId,
              !.notes = IF findingData.notes = Absent THEN @ ELSE findingData.notes]

updateExamFinding_select(p, id, findingData) ==
  /\ CanStart(p)
  /\ budget' = budget - 1
  /\ IF ~examFindings[id].exists
       THEN Finish(p, [op |-> "updateExamFinding", res |-> "NotFound"])
       ELSE /\ pc' = [pc EXCEPT ![p] =
                        [op |-> "updateExamFinding", step |-> "getExam", id |-> id,
                         findingData |-> findingData, examId |-> examFindings[id].examId]]
            /\ UNCHANGED result
  /\ UNCHANGED <<client, siteVars, tables, nextExamId, nextFindingId, hist>>

\* exam?.status === "signed": a missing exam passes the check.
updateExamFinding_getExam(p) ==
  /\ pc[p].op = "updateExamFinding" /\ pc[p].step = "getExam"
  /\ IF exams[pc[p].examId].exists /\ exams[pc[p].examId].status = "signed"
       THEN Finish(p, [op |-> "updateExamFinding", res |-> "ValidationError"])
       ELSE /\ pc' = [pc EXCEPT ![p].step = "update"]
            /\ UNCHANGED result
  /\ UNCHANGED <<client, siteVars, tables, nextExamId, nextFindingId, budget, hist>>

updateExamFinding_update(p) ==
  /\ pc[p].op = "updateExamFinding" /\ pc[p].step = "update"
  /\ LET id == pc[p].id
         data == pc[p].findingData
     IN IF ~examFindings[id].exists
          THEN /\ UNCHANGED examFindings
               /\ Finish(p, [op |-> "updateExamFinding", res |-> "UPDATE_FAILED"])
          ELSE IF data.examId # 0 /\ ~exams[data.examId].exists
            THEN /\ UNCHANGED examFindings
                 /\ Finish(p, [op |-> "updateExamFinding", res |-> "DbError"])
            ELSE /\ examFindings' = [examFindings EXCEPT ![id] = findingSet(@, data)]
                 /\ Finish(p, [op |-> "updateExamFinding", res |-> "ok"])
  /\ UNCHANGED <<client, siteVars, patients, users, exams, nextExamId, nextFindingId, budget, hist>>

\* ----------------------------------------------------------- deleteExamFinding
deleteExamFinding_select(p, id) ==
  /\ CanStart(p)
  /\ budget' = budget - 1
  /\ IF ~examFindings[id].exists
       THEN Finish(p, [op |-> "deleteExamFinding", res |-> "NotFound"])
       ELSE /\ pc' = [pc EXCEPT ![p] =
                        [op |-> "deleteExamFinding", step |-> "getExam", id |-> id,
                         examId |-> examFindings[id].examId]]
            /\ UNCHANGED result
  /\ UNCHANGED <<client, siteVars, tables, nextExamId, nextFindingId, hist>>

deleteExamFinding_getExam(p) ==
  /\ pc[p].op = "deleteExamFinding" /\ pc[p].step = "getExam"
  /\ IF exams[pc[p].examId].exists /\ exams[pc[p].examId].status = "signed"
       THEN Finish(p, [op |-> "deleteExamFinding", res |-> "ValidationError"])
       ELSE /\ pc' = [pc EXCEPT ![p].step = "delete"]
            /\ UNCHANGED result
  /\ UNCHANGED <<client, siteVars, tables, nextExamId, nextFindingId, budget, hist>>

deleteExamFinding_delete(p) ==
  /\ pc[p].op = "deleteExamFinding" /\ pc[p].step = "delete"
  /\ examFindings' = [examFindings EXCEPT ![pc[p].id] = NoRow]
  /\ Finish(p, [op |-> "deleteExamFinding", res |-> "ok"])
  /\ UNCHANGED <<client, siteVars, patients, users, exams, nextExamId, nextFindingId, budget, hist>>

\* ------------------------------------------------------ createExamWithFindings
\* The transaction's own, uncommitted rows: invisible to every other connection.
NoTx == [exam |-> NoRow, findings |-> <<>>]

\* The column values of the INSERT INTO exams of the transaction.
txExamRow(examData) ==
  [exists |-> TRUE, patientId |-> examData.patientId,
   status |-> IF examData.status = Absent THEN "draft" ELSE examData.status,
   examinerId |-> examData.examinerId, planNotes |-> examData.planNotes]

\* The column values of one INSERT INTO exam_findings of the transaction.
txFindingRow(examId, findingData) ==
  [exists |-> TRUE, examId |-> examId, systemName |-> findingData.systemName,
   notes |-> findingData.notes]

\* COMMIT: the transaction's rows become the tables' rows.
txCommitExams(ex, eid, tx) == [ex EXCEPT ![eid] = tx.exam]

txCommitFindings(ef, fid, tx) ==
  [f \in FindingIds |->
     IF f >= fid /\ f < fid + Len(tx.findings) THEN tx.findings[f - fid + 1] ELSE ef[f]]

\* A connection in autocommit: what was inserted before the failure stays.
txRollbackExams_autocommit(ex, eid, tx) ==
  IF tx.exam.exists THEN [ex EXCEPT ![eid] = tx.exam] ELSE ex

\* ROLLBACK: the transaction's rows are dropped.
txRollbackExams(ex, eid, tx) == ex

txRollbackFindings(ef, fid, tx) == ef

createExamWithFindings_getPatient(p, examData, findingsData) ==
  /\ CanStart(p)
  /\ budget' = budget - 1
  /\ IF ~patients[examData.patientId].exists
       THEN Finish(p, [op |-> "createExamWithFindings", res |-> "NotFound"])
            /\ UNCHANGED <<nextExamId, nextFindingId>>
       ELSE IF ~patients[examData.patientId].isActive
         THEN Finish(p, [op |-> "createExamWithFindings", res |-> "ValidationError"])
              /\ UNCHANGED <<nextExamId, nextFindingId>>
         ELSE /\ nextExamId <= MaxExams
              /\ nextFindingId + Len(findingsData) - 1 <= MaxFindings
              /\ pc' = [pc EXCEPT ![p] =
                          [op |-> "createExamWithFindings", step |-> "insertExam",
                           examData |-> examData, findingsData |-> findingsData,
                           eid |-> nextExamId, fid |-> nextFindingId, tx |-> NoTx]]
              /\ nextExamId' = nextExamId + 1
              /\ nextFindingId' = nextFindingId + Len(findingsData)
              /\ UNCHANGED result
  /\ UNCHANGED <<client, siteVars, tables, hist>>

\* BEGIN, then INSERT INTO exams; the statement may fail.
createExamWithFindings_insertExam(p) ==
  /\ pc[p].op = "createExamWithFindings" /\ pc[p].step = "insertExam"
  /\ \E ok \in BOOLEAN :
       pc' = [pc EXCEPT ![p] =
                IF ok
                  THEN [@ EXCEPT !.tx.exam = txExamRow(pc[p].examData),
                                 !.step = IF Len(pc[p].findingsData) = 0
                                            THEN "commit" ELSE "insertFinding"]
                  ELSE [@ EXCEPT !.step = "rollback"]]
  /\ UNCHANGED <<client, siteVars, tables, nextExamId, nextFindingId, result, budget, hist>>

\* One round of the loop over findingsData; the statement may fail.
createExamWithFindings_insertFinding(p) ==
  /\ pc[p].op = "createExamWithFindings" /\ pc[p].step = "insertFinding"
  /\ LET k == Len(pc[p].tx.findings) + 1 IN
     \E ok \in BOOLEAN :
       pc' = [pc EXCEPT ![p] =
                IF ok
                  THEN [@ EXCEPT !.tx.findings =
                                   Append(@, txFindingRow(pc[p].eid, pc[p].findingsData[k])),
                                 !.step = IF k = Len(pc[p].findingsData)
                                            THEN "commit" ELSE "insertFinding"]
                  ELSE [@ EXCEPT !.step = "rollback"]]
  /\ UNCHANGED <<client, siteVars, tables, nextExamId, nextFindingId, result, budget, hist>>

createExamWithFindings_commit(p) ==
  /\ pc[p].op = "createExamWithFindings" /\ pc[p].step = "commit"
  /\ exams' = txCommitExams(exams, pc[p].eid, pc[p].tx)
  /\ examFindings' = txCommitFindings(examFindings, pc[p].fid, pc[p].tx)
  /\ Finish(p, [op |-> "createExamWithFindings", res |-> "ok",
                inserted |-> 1 + Len(pc[p].tx.findings)])
  /\ UNCHANGED <<client, siteVars, patients, users, nextExamId, nextFindingId, budget, hist>>

createExamWithFindings_rollback(p) ==
  /\ pc[p].op = "createExamWithFindings" /\ pc[p].step = "rollback"
  /\ exams' = txRollbackExams(exams, pc[p].eid, pc[p].tx)
  /\ examFindings' = txRollbackFindings(examFindings, pc[p].fid, pc[p].tx)
  /\ Finish(p, [op |-> "createExamWithFindings", res |-> "TransactionError",
                inserted |-> (IF pc[p].tx.exam.exists THEN 1 ELSE 0) + Len(pc[p].tx.findings)])
  /\ UNCHANGED <<client, siteVars, patients, users, nextExamId, nextFindingId, budget, hist>>

\* ================================================================ exam store
\* The client-side exam state, the system catalog and the report renderer.
\*
\* Text is modelled as a sequence of tokens: every literal chunk of a template
\* literal is one token and every substituted value contributes its own
\* tokens; the empty string is the empty sequence.  A report is the sequence
\* of its lines (lines.join("\n"); no token holds a line break).  The
\* characters U+2550, U+2500 and U+00B0 of the source are transcribed to
\* ASCII ("=", "-", "deg").

\* ------------------------------------------------------------- the catalog
\* A catalog of three systems in which two systems carry the same
\* displayOrder and a select field has lost its options.
examSystemsConfig_duplicateOrder ==
  <<
    [name |-> "general", displayName |-> "General & Vital Signs", displayOrder |-> 1,
     defaultNormalText |-> "Vital signs within normal limits.",
     fields |-> <<
        [name |-> "temperature", label |-> "Temperature", type |-> "numeric", options |-> <<>>, unit |-> "degF"] >>],
    [name |-> "skin", displayName |-> "Skin & Coat", displayOrder |-> 1,
     defaultNormalText |-> "Skin is supple.",
     fields |-> <<
        [name |-> "lesions", label |-> "Lesions Present", type |-> "checkbox", options |-> <<>>, unit |-> ""],
        [name |-> "lesionType", label |-> "Lesion Type", type |-> "multiselect", options |-> <<"Papules", "Pustules">>, unit |-> ""],
        [name |-> "pruritus", label |-> "Pruritus", type |-> "select", options |-> <<>>, unit |-> ""] >>],
    [name |-> "endocrine", displayName |-> "Endocrine/Metabolic", displayOrder |-> 13,
     defaultNormalText |-> "No clinical signs suggestive of endocrine disease.",
     fields |-> <<>>]
  >>

\* examSystemsConfig; a field without a unit has unit "" (both are falsy).
examSystemsConfig ==
  <<
    [name |-> "general", displayName |-> "General & Vital Signs", displayOrder |-> 1,
     defaultNormalText |-> "Patient is bright, alert, and responsive. Body condition score is appropriate. Vital signs within normal limits. No evidence of pain or distress. Adequately hydrated.",
     fields |-> <<
        [name |-> "attitude", label |-> "Attitude", type |-> "select", options |-> <<"Bright, alert, responsive", "Quiet", "Depressed", "Anxious", "Aggressive">>, unit |-> ""],
        [name |-> "bcs", label |-> "Body Condition Score", type |-> "select", options |-> <<"1/9 - Emaciated", "2/9", "3/9 - Thin", "4/9", "5/9 - Ideal", "6/9", "7/9 - Overweight", "8/9", "9/9 - Obese">>, unit |-> ""],
        [name |-> "temperature", label |-> "Temperature", type |-> "numeric", options |-> <<>>, unit |-> "degF"],
        [name |-> "heartRate", label |-> "Heart Rate", type |-> "numeric", options |-> <<>>, unit |-> "bpm"],
        [name |-> "respiratoryRate", label |-> "Respiratory Rate", type |-> "numeric", options |-> <<>>, unit |-> "breaths/min"],
        [name |-> "hydration", label |-> "Hydration Status", type |-> "select", options |-> <<"Normal", "Mildly dehydrated (5%)", "Moderately dehydrated (7-8%)", "Severely dehydrated (10%+)">>, unit |-> ""],
        [name |-> "painScore", label |-> "Pain Score", type |-> "select", options |-> <<"0 - No pain", "1 - Mild", "2 - Moderate", "3 - Severe", "4 - Excruciating">>, unit |-> ""],
        [name |-> "mmColor", label |-> "Mucous Membrane Color", type |-> "select", options |-> <<"Pink", "Pale", "Icteric", "Cyanotic", "Injected", "Muddy">>, unit |-> ""],
        [name |-> "crt", label |-> "Capillary Refill Time", type |-> "select", options |-> <<"< 2 seconds (normal)", "2-3 seconds (prolonged)", "> 3 seconds (severely prolonged)">>, unit |-> ""] >>],
    [name |-> "skin", displayName |-> "Skin & Coat", displayOrder |-> 2,
     defaultNormalText |-> "Skin is supple with no evidence of masses, lesions, or parasites. Coat is clean, well-groomed, and appropriate for breed.",
     fields |-> <<
        [name |-> "coatCondition", label |-> "Coat Condition", type |-> "select", options |-> <<"Normal", "Dry", "Oily", "Matted", "Thin/Alopecic">>, unit |-> ""],
        [name |-> "skinTurgor", label |-> "Skin Turgor", type |-> "select", options |-> <<"Normal", "Reduced">>, unit |-> ""],
        [name |-> "lesions", label |-> "Lesions Present", type |-> "checkbox", options |-> <<>>, unit |-> ""],
        [name |-> "lesionType", label |-> "Lesion Type", type |-> "multiselect", options |-> <<"Papules", "Pustules", "Crusts", "Erosions", "Ulcers", "Nodules", "Masses">>, unit |-> ""],
        [name |-> "parasites", label |-> "External Parasites", type |-> "multiselect", options |-> <<"None observed", "Fleas", "Ticks", "Mites (suspected)", "Lice">>, unit |-> ""],
        [name |-> "pruritus", label |-> "Pruritus", type |-> "select", options |-> <<"None", "Mild", "Moderate", "Severe">>, unit |-> ""] >>],
    [name |-> "musculoskeletal", displayName |-> "Musculoskeletal", displayOrder |-> 3,
     defaultNormalText |-> "Gait is normal and symmetric. No lameness observed. All joints have full range of motion without pain or crepitus. Muscles are symmetric and well-developed.",
     fields |-> <<
        [name |-> "gait", label |-> "Gait", type |-> "select", options |-> <<"Normal", "Lameness - Mild", "Lameness - Moderate", "Lameness - Severe", "Non-weight bearing">>, unit |-> ""],
        [name |-> "lamenesLocation", label |-> "Lameness Location", type |-> "multiselect", options |-> <<"Left forelimb", "Right forelimb", "Left hindlimb", "Right hindlimb", "Multiple limbs">>, unit |-> ""],
        [name |-> "muscleSymmetry", label |-> "Muscle Symmetry", type |-> "select", options |-> <<"Symmetric", "Atrophy present">>, unit |-> ""],
        [name |-> "jointPain", label |-> "Joint Pain", type |-> "checkbox", options |-> <<>>, unit |-> ""],
        [name |-> "crepitus", label |-> "Crepitus", type |-> "checkbox", options |-> <<>>, unit |-> ""],
        [name |-> "affectedJoints", label |-> "Affected Joints", type |-> "multiselect", options |-> <<"Shoulder", "Elbow", "Carpus", "Hip", "Stifle", "Tarsus", "Spine">>, unit |-> ""] >>],
    [name |-> "neurologic", displayName |-> "Neurologic", displayOrder |-> 4,
     defaultNormalText |-> "Mentation is normal. Cranial nerve examination unremarkable. Proprioception intact in all four limbs. Spinal reflexes normal. No evidence of ataxia or paresis.",
     fields |-> <<
        [name |-> "mentation", label |-> "Mentation", type |-> "select", options |-> <<"Normal", "Obtunded", "Stuporous", "Comatose">>, unit |-> ""],
        [name |-> "cranialNerves", label |-> "Cranial Nerve Exam", type |-> "select", options |-> <<"Normal", "Abnormalities detected">>, unit |-> ""],
        [name |-> "proprioception", label |-> "Proprioception", type |-> "select", options |-> <<"Normal all limbs", "Delayed", "Absent">>, unit |-> ""],
        [name |-> "ataxia", label |-> "Ataxia", type |-> "select", options |-> <<"None", "Vestibular", "Cerebellar", "Proprioceptive">>, unit |-> ""],
        [name |-> "paresis", label |-> "Paresis/Paralysis", type |-> "select", options |-> <<"None", "Monoparesis", "Paraparesis", "Tetraparesis", "Hemiparesis">>, unit |-> ""],
        [name |-> "seizures", label |-> "Seizure History", type |-> "checkbox", options |-> <<>>, unit |-> ""] >>],
    [name |-> "eyes", displayName |-> "Eyes", displayOrder |-> 5,
     defaultNormalText |-> "Both eyes are clear and bright. Pupils are equal and responsive to light. No evidence of discharge, redness, or opacity. Menace response and PLR intact bilaterally.",
     fields |-> <<
        [name |-> "discharge", label |-> "Ocular Discharge", type |-> "select", options |-> <<"None", "Serous", "Mucoid", "Mucopurulent">>, unit |-> ""],
        [name |-> "redness", label |-> "Conjunctival Redness", type |-> "select", options |-> <<"None", "Mild", "Moderate", "Severe">>, unit |-> ""],
        [name |-> "cornealClarity", label |-> "Corneal Clarity", type |-> "select", options |-> <<"Clear", "Edema present", "Ulcer suspected", "Pigmentation", "Scarring">>, unit |-> ""],
        [name |-> "plr", label |-> "PLR", type |-> "select", options |-> <<"Normal bilateral", "Sluggish", "Absent">>, unit |-> ""],
        [name |-> "menaceResponse", label |-> "Menace Response", type |-> "select", options |-> <<"Intact bilateral", "Reduced", "Absent">>, unit |-> ""],
        [name |-> "lensOpacity", label |-> "Lens Opacity", type |-> "select", options |-> <<"Clear", "Nuclear sclerosis", "Cataract - incipient", "Cataract - mature">>, unit |-> ""] >>],
    [name |-> "ears", displayName |-> "Ears", displayOrder |-> 6,
     defaultNormalText |-> "Pinnae are healthy with no lesions. External ear canals are clean with minimal cerumen. Tympanic membranes intact bilaterally. No evidence of otitis.",
     fields |-> <<
        [name |-> "pinnaCondition", label |-> "Pinna Condition", type |-> "select", options |-> <<"Normal", "Erythema", "Thickening", "Lesions present", "Aural hematoma">>, unit |-> ""],
        [name |-> "canalCondition", label |-> "Canal Condition", type |-> "select", options |-> <<"Clean/Normal", "Mild debris", "Moderate debris", "Stenotic", "Occluded">>, unit |-> ""],
        [name |-> "discharge", label |-> "Otic Discharge", type |-> "select", options |-> <<"None", "Ceruminous", "Purulent", "Hemorrhagic">>, unit |-> ""],
        [name |-> "odor", label |-> "Odor", type |-> "select", options |-> <<"None", "Present">>, unit |-> ""],
        [name |-> "pain", label |-> "Pain on Manipulation", type |-> "checkbox", options |-> <<>>, unit |-> ""],
        [name |-> "affectedEar", label |-> "Affected Ear", type |-> "multiselect", options |-> <<"Left", "Right", "Bilateral">>, unit |-> ""] >>],
    [name |-> "oral", displayName |-> "Oral Cavity & Teeth", displayOrder |-> 7,
     defaultNormalText |-> "Oral examination reveals healthy gingiva and mucous membranes. Teeth are clean with no evidence of calculus, fractures, or periodontal disease. No oral masses detected.",
     fields |-> <<
        [name |-> "dentalCalculus", label |-> "Dental Calculus", type |-> "select", options |-> <<"None", "Grade 1 - Mild", "Grade 2 - Moderate", "Grade 3 - Severe">>, unit |-> ""],
        [name |-> "gingivitis", label |-> "Gingivitis", type |-> "select", options |-> <<"None", "Mild", "Moderate", "Severe">>, unit |-> ""],
        [name |-> "periodontalDisease", label |-> "Periodontal Disease", type |-> "checkbox", options |-> <<>>, unit |-> ""],
        [name |-> "fracturedTeeth", label |-> "Fractured Teeth", type |-> "checkbox", options |-> <<>>, unit |-> ""],
        [name |-> "missingTeeth", label |-> "Missing Teeth", type |-> "checkbox", options |-> <<>>, unit |-> ""],
        [name |-> "oralMasses", label |-> "Oral Masses", type |-> "checkbox", options |-> <<>>, unit |-> ""],
        [name |-> "tongueNormal", label |-> "Tongue Normal", type |-> "checkbox", options |-> <<>>, unit |-> ""] >>],
    [name |-> "cardiovascular", displayName |-> "Cardiovascular", displayOrder |-> 8,
     defaultNormalText |-> "Heart rate and rhythm are normal. No murmurs, gallops, or arrhythmias detected on auscultation. Peripheral pulses are strong and synchronous. No jugular distension.",
     fields |-> <<
        [name |-> "heartRhythm", label |-> "Heart Rhythm", type |-> "select", options |-> <<"Regular", "Regularly irregular", "Irregularly irregular", "Bradycardia", "Tachycardia">>, unit |-> ""],
        [name |-> "murmur", label |-> "Heart Murmur", type |-> "checkbox", options |-> <<>>, unit |-> ""],
        [name |-> "murmurGrade", label |-> "Murmur Grade", type |-> "select", options |-> <<"I/VI", "II/VI", "III/VI", "IV/VI", "V/VI", "VI/VI">>, unit |-> ""],
        [name |-> "murmurLocation", label |-> "Murmur PMI", type |-> "select", options |-> <<"Left apex", "Left base", "Right side", "Both sides">>, unit |-> ""],
        [name |-> "pulseQuality", label |-> "Pulse Quality", type |-> "select", options |-> <<"Strong/synchronous", "Weak", "Bounding", "Pulse deficits">>, unit |-> ""],
        [name |-> "jugularDistension", label |-> "Jugular Distension", type |-> "checkbox", options |-> <<>>, unit |-> ""],
        [name |-> "gallop", label |-> "Gallop Rhythm", type |-> "checkbox", options |-> <<>>, unit |-> ""] >>],
    [name |-> "respiratory", displayName |-> "Respiratory", displayOrder |-> 9,
     defaultNormalText |-> "Respiratory rate and effort are normal. Lung sounds are clear bilaterally. No nasal discharge, coughing, or evidence of respiratory distress.",
     fields |-> <<
        [name |-> "effort", label |-> "Respiratory Effort", type |-> "select", options |-> <<"Normal", "Increased", "Labored", "Dyspneic">>, unit |-> ""],
        [name |-> "lungSounds", label |-> "Lung Sounds", type |-> "select", options |-> <<"Clear bilaterally", "Harsh/Increased", "Crackles", "Wheezes", "Decreased/Absent">>, unit |-> ""],
        [name |-> "nasalDischarge", label |-> "Nasal Discharge", type |-> "select", options |-> <<"None", "Serous", "Mucoid", "Mucopurulent", "Hemorrhagic">>, unit |-> ""],
        [name |-> "coughing", label |-> "Cough", type |-> "select", options |-> <<"None", "Dry/non-productive", "Productive", "Paroxysmal">>, unit |-> ""],
        [name |-> "tracheaPalpation", label |-> "Tracheal Sensitivity", type |-> "select", options |-> <<"Normal", "Cough induced">>, unit |-> ""],
        [name |-> "stertor", label |-> "Stertor/Stridor", type |-> "checkbox", options |-> <<>>, unit |-> ""] >>],
    [name |-> "gastrointestinal", displayName |-> "Gastrointestinal", displayOrder |-> 10,
     defaultNormalText |-> "Abdomen is soft, non-painful, and without organomegaly or palpable masses. No vomiting or diarrhea reported. Anal region is clean and normal.",
     fields |-> <<
        [name |-> "abdominalPalpation", label |-> "Abdominal Palpation", type |-> "select", options |-> <<"Soft, non-painful", "Tense", "Painful", "Distended">>, unit |-> ""],
        [name |-> "organomegaly", label |-> "Organomegaly", type |-> "multiselect", options |-> <<"None", "Hepatomegaly", "Splenomegaly", "Renomegaly">>, unit |-> ""],
        [name |-> "masses", label |-> "Abdominal Masses", type |-> "checkbox", options |-> <<>>, unit |-> ""],
        [name |-> "fluidWave", label |-> "Fluid Wave", type |-> "checkbox", options |-> <<>>, unit |-> ""],
        [name |-> "vomiting", label |-> "Vomiting History", type |-> "select", options |-> <<"None", "Occasional", "Frequent", "Projectile">>, unit |-> ""],
        [name |-> "stoolConsistency", label |-> "Stool Consistency", type |-> "select", options |-> <<"Normal", "Soft", "Diarrhea", "Bloody", "Mucoid", "Constipated">>, unit |-> ""],
        [name |-> "analRegion", label |-> "Anal/Perineal Region", type |-> "select", options |-> <<"Normal", "Distended anal sacs", "Perineal hernia", "Masses">>, unit |-> ""] >>],
    [name |-> "urogenital", displayName |-> "Urogenital", displayOrder |-> 11,
     defaultNormalText |-> "Bladder is normal size and easily expressible. Kidneys are symmetric and non-painful. External genitalia are normal. No abnormal discharge.",
     fields |-> <<
        [name |-> "bladder", label |-> "Bladder", type |-> "select", options |-> <<"Normal/small", "Distended", "Thickened wall", "Not palpable">>, unit |-> ""],
        [name |-> "kidneys", label |-> "Kidneys", type |-> "select", options |-> <<"Normal size and shape", "Enlarged", "Small", "Irregular", "Painful">>, unit |-> ""],
        [name |-> "prostate", label |-> "Prostate (Males)", type |-> "select", options |-> <<"Normal", "Enlarged", "Painful", "Asymmetric", "N/A">>, unit |-> ""],
        [name |-> "vulva", label |-> "Vulva (Females)", type |-> "select", options |-> <<"Normal", "Discharge present", "Swollen", "N/A">>, unit |-> ""],
        [name |-> "mammaryGlands", label |-> "Mammary Glands", type |-> "select", options |-> <<"Normal", "Masses present", "Galactorrhea", "N/A">>, unit |-> ""],
        [name |-> "testicles", label |-> "Testicles (Intact Males)", type |-> "select", options |-> <<"Both descended, normal", "Cryptorchid", "Masses", "Asymmetric", "N/A">>, unit |-> ""],
        [name |-> "urinarySymptoms", label |-> "Urinary Symptoms", type |-> "multiselect", options |-> <<"None", "Polyuria", "Pollakiuria", "Stranguria", "Hematuria">>, unit |-> ""] >>],
    [name |-> "lymphnodes", displayName |-> "Lymph Nodes", displayOrder |-> 12,
     defaultNormalText |-> "All peripheral lymph nodes are normal in size and consistency. No lymphadenopathy detected.",
     fields |-> <<
        [name |-> "submandibular", label |-> "Submandibular", type |-> "select", options |-> <<"Normal", "Enlarged", "Painful">>, unit |-> ""],
        [name |-> "prescapular", label |-> "Prescapular", type |-> "select", options |-> <<"Normal", "Enlarged", "Painful">>, unit |-> ""],
        [name |-> "axillary", label |-> "Axillary", type |-> "select", options |-> <<"Normal", "Enlarged", "Painful", "Not palpable">>, unit |-> ""],
        [name |-> "inguinal", label |-> "Inguinal", type |-> "select", options |-> <<"Normal", "Enlarged", "Painful", "Not palpable">>, unit |-> ""],
        [name |-> "popliteal", label |-> "Popliteal", type |-> "select", options |-> <<"Normal", "Enlarged", "Painful">>, unit |-> ""],
        [name |-> "generalizedLymphadenopathy", label |-> "Generalized Lymphadenopathy", type |-> "checkbox", options |-> <<>>, unit |-> ""] >>],
    [name |-> "endocrine", displayName |-> "Endocrine/Metabolic", displayOrder |-> 13,
     defaultNormalText |-> "No clinical signs suggestive of endocrine disease. No polyuria, polydipsia, or unexplained weight changes reported.",
     fields |-> <<
        [name |-> "pupd", label |-> "PU/PD", type |-> "checkbox", options |-> <<>>, unit |-> ""],
        [name |-> "polyphagia", label |-> "Polyphagia", type |-> "checkbox", options |-> <<>>, unit |-> ""],
        [name |-> "weightChange", label |-> "Weight Change", type |-> "select", options |-> <<"Stable", "Weight loss", "Weight gain">>, unit |-> ""],
        [name |-> "hairCoatChanges", label |-> "Hair Coat Changes", type |-> "select", options |-> <<"None", "Bilaterally symmetric alopecia", "Thin coat", "Poor regrowth">>, unit |-> ""],
        [name |-> "thyroid", label |-> "Thyroid Palpation (Cats)", type |-> "select", options |-> <<"Not palpable", "Palpable/Nodule", "N/A">>, unit |-> ""],
        [name |-> "potBelly", label |-> "Pot-bellied Appearance", type |-> "checkbox", options |-> <<>>, unit |-> ""],
        [name |-> "muscleWasting", label |-> "Muscle Wasting", type |-> "checkbox", options |-> <<>>, unit |-> ""] >>]
  >>

\* String.prototype.toUpperCase on the strings the renderer applies it to.
toUpperCaseTable ==
     "General & Vital Signs" :> "GENERAL & VITAL SIGNS"
  @@ "Skin & Coat" :> "SKIN & COAT"
  @@ "Musculoskeletal" :> "MUSCULOSKELETAL"
  @@ "Neurologic" :> "NEUROLOGIC"
  @@ "Eyes" :> "EYES"
  @@ "Ears" :> "EARS"
  @@ "Oral Cavity & Teeth" :> "ORAL CAVITY & TEETH"
  @@ "Cardiovascular" :> "CARDIOVASCULAR"
  @@ "Respiratory" :> "RESPIRATORY"
  @@ "Gastrointestinal" :> "GASTROINTESTINAL"
  @@ "Urogenital" :> "UROGENITAL"
  @@ "Lymph Nodes" :> "LYMPH NODES"
  @@ "Endocrine/Metabolic" :> "ENDOCRINE/METABOLIC"
  @@ "KASEKETI VETERINARY CLINIC" :> "KASEKETI VETERINARY CLINIC"

toUpperCase(s) == toUpperCaseTable[s]

\* ------------------------------------------------------- JavaScript values
JsUndefined == [t |-> "undefined"]
JsNull == [t |-> "null"]
JsString(s) == [t |-> "string", v |-> s]
JsBoolean(b) == [t |-> "boolean", v |-> b]
JsNumber(n) == [t |-> "number", v |-> n]
JsArray(a) == [t |-> "array", v |-> a]

\* ToBoolean: the test of `x || d`, `if (x)` and `!x`.
Truthy(x) ==
  CASE x.t = "undefined" -> FALSE
    [] x.t = "null" -> FALSE
    [] x.t = "string" -> x.v # ""
    [] x.t = "boolean" -> x.v
    [] x.t = "number" -> x.v # 0
    [] OTHER -> TRUE

\* A string as text.
Str(s) == IF s = "" THEN <<>> ELSE <<s>>

Digits == <<"0", "1", "2", "3", "4", "5", "6", "7", "8", "9">>

\* Number.prototype.toString of a non-negative integer.
RECURSIVE NumberToString(_)
NumberToString(n) ==
  IF n < 10 THEN <<Digits[n + 1]>>
  ELSE NumberToString(n \div 10) \o <<Digits[(n % 10) + 1]>>

\* Array.prototype.join on an array of texts.
RECURSIVE join(_, _)
join(arr, sep) ==
  IF arr = <<>> THEN <<>>
  ELSE IF Len(arr) = 1 THEN arr[1]
  ELSE arr[1] \o sep \o join(Tail(arr), sep)

\* String(x): a value substituted into a template literal.
toText(x) ==
  CASE x.t = "string" -> Str(x.v)
    [] x.t = "number" -> NumberToString(x.v)
    [] x.t = "boolean" -> IF x.v THEN <<"true">> ELSE <<"false">>
    [] x.t = "array" -> join([i \in DOMAIN x.v |-> Str(x.v[i])], <<",">>)
    [] x.t = "null" -> <<"null">>
    [] OTHER -> <<"undefined">>

\* x ?? d: a default that replaces undefined and null only.
OrElse_nullish(x, d) == IF x.t \in {"undefined", "null"} THEN <<d>> ELSE toText(x)

\* x || d inside a template literal.
OrElse(x, d) == IF Truthy(x) THEN toText(x) ELSE <<d>>

\* An object is the sequence of its own properties [k, v] in insertion order
\* (the order Object.entries and the spread operator follow).
objKeys(obj) == {obj[i].k : i \in DOMAIN obj}

\* obj[key]
objGet(obj, key) ==
  IF key \in objKeys(obj)
    THEN obj[CHOOSE i \in DOMAIN obj : obj[i].k = key].v
    ELSE JsUndefined

\* {...obj, [key]: value}
objSet(obj, key, value) ==
  IF key \in objKeys(obj)
    THEN [i \in DOMAIN obj |-> IF obj[i].k = key THEN [k |-> key, v |-> value] ELSE obj[i]]
    ELSE Append(obj, [k |-> key, v |-> value])

\* A lookup that falls back on the first field definition.
findField_orFirst(fields, fieldName) ==
  IF \E i \in DOMAIN fields : fields[i].name = fieldName
    THEN fields[CHOOSE i \in DOMAIN fields :
                  /\ fields[i].name = fieldName
                  /\ \A j \in 1..(i - 1) : fields[j].name # fieldName]
    ELSE IF fields # <<>> THEN fields[1] ELSE JsUndefined

\* fields.find(f => f.name === fieldName)
findField(fields, fieldName) ==
  IF \E i \in DOMAIN fields : fields[i].name = fieldName
    THEN fields[CHOOSE i \in DOMAIN fields :
                  /\ fields[i].name = fieldName
                  /\ \A j \in 1..(i - 1) : fields[j].name # fieldName]
    ELSE JsUndefined

\* ------------------------------------------------------------ the exam state
\* An initial finding that is not yet marked normal.
initialFinding_unassessed(systemName) ==
  [systemName |-> systemName, isNormal |-> FALSE, severity |-> JsUndefined,
   findings |-> <<>>, notes |-> ""]

\* The finding createInitialExamState stores for a system.
initialFinding(systemName) ==
  [systemName |-> systemName, isNormal |-> TRUE, severity |-> JsUndefined,
   findings |-> <<>>, notes |-> ""]

\* examDate is a Date, held as what it shows in the browser's locale.
createInitialExamState(examDate) ==
  [patient |-> <<>>,
   examDate |-> examDate,
   examiner |-> "",
   presentingComplaint |-> "",
   planNotes |-> "",
   findings |-> [i \in DOMAIN examSystemsConfig |->
                   [k |-> examSystemsConfig[i].name,
                    v |-> initialFinding(examSystemsConfig[i].name)]],
   completedSystems |-> {}]

toLocaleDateString(date) == Str(date.date)
toLocaleTimeString(date) == Str(date.time)

\* ------------------------------------------------------------ generateReport
DoubleRule == "==============================================================="
SingleRule == "---------------------------------------------------------------"
DefaultClinicName == "KASEKETI VETERINARY CLINIC"

headerLines(clinicName) ==
  << <<DoubleRule>>,
     <<"           ">> \o Str(toUpperCase(clinicName)),
     <<"              PHYSICAL EXAMINATION REPORT">>,
     <<DoubleRule>>,
     <<>> >>

patientLines(state) ==
  LET patient == state.patient IN
  << <<"PATIENT INFORMATION">>,
     <<SingleRule>>,
     <<"Patient Name: ">> \o OrElse(objGet(patient, "name"), "Not specified"),
     <<"Species: ">> \o OrElse(objGet(patient, "species"), "Not specified"),
     <<"Breed: ">> \o OrElse(objGet(patient, "breed"), "Not specified"),
     <<"Sex: ">> \o OrElse(objGet(patient, "sex"), "Not specified") \o <<" (">>
        \o OrElse(objGet(patient, "neuterStatus"), "Unknown") \o <<")">>,
     <<"Age: ">> \o OrElse(objGet(patient, "age"), "Not specified"),
     <<"Weight: ">> \o OrElse(objGet(patient, "weight"), "Not specified"),
     <<"Client: ">> \o OrElse(objGet(patient, "clientName"), "Not specified"),
     <<"Exam Date: ">> \o toLocaleDateString(state.examDate) \o <<" ">>
        \o toLocaleTimeString(state.examDate),
     <<"Examining Veterinarian: ">> \o OrElse(JsString(state.examiner), "Not specified"),
     <<>> >>

subjectiveLines(state) ==
  << <<"SUBJECTIVE">>,
     <<SingleRule>>,
     <<"Presenting Complaint: ">> \o OrElse(JsString(state.presentingComplaint), "None provided"),
     <<>> >>

\* if (!finding) return;
hasFinding(finding) == finding # JsUndefined /\ finding # JsNull

\* A renderer that takes the normal branch only for a finding without notes.
normalBranch_unlessNotes(finding) == finding.isNormal /\ finding.notes = ""

\* if (finding.isNormal)
normalBranch(finding) == finding.isNormal

\* A renderer that does not skip a value of false.
fieldLine_falseAsYes(systemConfig, fieldName, value) ==
  LET fieldConfig == findField(systemConfig.fields, fieldName) IN
  IF /\ fieldConfig # JsUndefined
     /\ value.t # "undefined" /\ value.t # "null"
     /\ ~(value.t = "string" /\ value.v = "")
    THEN IF value.t = "array"
           THEN IF Len(value.v) > 0
                  THEN << Str(fieldConfig.label) \o <<": ">>
                            \o join([i \in DOMAIN value.v |-> Str(value.v[i])], <<", ">>) >>
                  ELSE <<>>
         ELSE IF value.t = "boolean"
           THEN << Str(fieldConfig.label) \o <<": Yes">> >>
         ELSE LET displayValue == IF fieldConfig.unit # ""
                                    THEN toText(value) \o <<" ">> \o Str(fieldConfig.unit)
                                    ELSE toText(value)
              IN << Str(fieldConfig.label) \o <<": ">> \o displayValue >>
    ELSE <<>>

\* The detail line of one entry of the finding's field values, if it has one.
fieldLine(systemConfig, fieldName, value) ==
  LET fieldConfig == findField(systemConfig.fields, fieldName) IN
  IF /\ fieldConfig # JsUndefined
     /\ value.t # "undefined" /\ value.t # "null"
     /\ ~(value.t = "string" /\ value.v = "")
     /\ ~(value.t = "boolean" /\ value.v = FALSE)
    THEN IF value.t = "array"
           THEN IF Len(value.v) > 0
                  THEN << Str(fieldConfig.label) \o <<": ">>
                            \o join([i \in DOMAIN value.v |-> Str(value.v[i])], <<", ">>) >>
                  ELSE <<>>
         ELSE IF value.t = "boolean"
           THEN << Str(fieldConfig.label) \o <<": Yes">> >>
         ELSE LET displayValue == IF fieldConfig.unit # ""
                                    THEN toText(value) \o <<" ">> \o Str(fieldConfig.unit)
                                    ELSE toText(value)
              IN << Str(fieldConfig.label) \o <<": ">> \o displayValue >>
    ELSE <<>>

\* finding.findings || {}: a finding record that carries no field-value map
\* has no findings field, and reading it yields undefined.
findingsOrEmpty(finding) ==
  IF "findings" \in DOMAIN finding THEN finding.findings ELSE <<>>

\* Object.entries(finding.findings || {}).forEach(...)
RECURSIVE fieldLines(_, _)
fieldLines(systemConfig, entries) ==
  IF entries = <<>> THEN <<>>
  ELSE fieldLine(systemConfig, entries[1].k, entries[1].v)
         \o fieldLines(systemConfig, Tail(entries))

detailLines(systemConfig, finding) ==
  (IF Truthy(finding.severity)
     THEN << <<"Severity: ">> \o toText(finding.severity) >> ELSE <<>>)
  \o fieldLines(systemConfig, findingsOrEmpty(finding))
  \o (IF finding.notes # "" THEN << <<"Notes: ">> \o Str(finding.notes) >> ELSE <<>>)

\* A renderer without the fallback sentence: an abnormal finding with no
\* detail line prints the bare period.
sectionBody_withoutFallback(systemConfig, finding) ==
  IF normalBranch(finding)
    THEN Str(systemConfig.defaultNormalText)
    ELSE join(detailLines(systemConfig, finding), <<". ">>) \o <<".">>

\* The line pushed under the heading of a system.
sectionBody(systemConfig, finding) ==
  IF normalBranch(finding)
    THEN Str(systemConfig.defaultNormalText)
    ELSE IF Len(detailLines(systemConfig, finding)) > 0
      THEN join(detailLines(systemConfig, finding), <<". ">>) \o <<".">>
      ELSE <<"Abnormalities noted - see additional notes.">>

\* A renderer that prints a section for normal findings only.
sectionLines_normalOnly(systemConfig, finding) ==
  IF hasFinding(finding) /\ finding.isNormal
    THEN << <<>>, Str(toUpperCase(systemConfig.displayName)),
            sectionBody(systemConfig, finding) >>
    ELSE <<>>

\* What one round of the forEach over the catalog pushes to lines.
sectionLines(systemConfig, finding) ==
  IF hasFinding(finding)
    THEN << <<>>, Str(toUpperCase(systemConfig.displayName)),
            sectionBody(systemConfig, finding) >>
    ELSE <<>>

\* A renderer that lists every abnormal finding, graded or not.
abnormalEntry_ungraded(systemConfig, finding) ==
  IF hasFinding(finding) /\ ~normalBranch(finding)
    THEN << Str(systemConfig.displayName) \o <<": ">> \o toText(finding.severity)
              \o <<" abnormality">> >>
    ELSE <<>>

\* What one round of the forEach over the catalog pushes to abnormalFindings.
abnormalEntry(systemConfig, finding) ==
  IF hasFinding(finding) /\ ~normalBranch(finding) /\ Truthy(finding.severity)
    THEN << Str(systemConfig.displayName) \o <<": ">> \o toText(finding.severity)
              \o <<" abnormality">> >>
    ELSE <<>>

\* examSystemsConfig.forEach, from the i-th system on.
RECURSIVE objectiveLines(_, _)
objectiveLines(findings, i) ==
  IF i > Len(examSystemsConfig) THEN <<>>
  ELSE sectionLines(examSystemsConfig[i], objGet(findings, examSystemsConfig[i].name))
         \o objectiveLines(findings, i + 1)

RECURSIVE abnormalFindings(_, _)
abnormalFindings(findings, i) ==
  IF i > Len(examSystemsConfig) THEN <<>>
  ELSE abnormalEntry(examSystemsConfig[i], objGet(findings, examSystemsConfig[i].name))
         \o abnormalFindings(findings, i + 1)

\* An assessment that prints the closing sentence under the list as well.
assessmentLines_sentenceAlways(abnormal) ==
  << <<>>, <<"ASSESSMENT">>, <<SingleRule>> >>
  \o (IF Len(abnormal) > 0
        THEN << <<"Key abnormal findings:">> >>
             \o [index \in DOMAIN abnormal |->
                   <<"  ">> \o NumberToString(index) \o <<". ">> \o abnormal[index]]
        ELSE <<>>)
  \o << <<"No significant abnormalities detected on physical examination.">> >>

assessmentLines(abnormal) ==
  << <<>>, <<"ASSESSMENT">>, <<SingleRule>> >>
  \o (IF Len(abnormal) > 0
        THEN << <<"Key abnormal findings:">> >>
             \o [index \in DOMAIN abnormal |->
                   <<"  ">> \o NumberToString(index) \o <<". ">> \o abnormal[index]]
        ELSE << <<"No significant abnormalities detected on physical examination.">> >>)

planLines(planNotes) ==
  << <<>>, <<"PLAN">>, <<SingleRule>>, OrElse(JsString(planNotes), "To be determined.") >>

\* A footer that carries the time of the call in its closing rule as well.
footerLines_twoStamps(now) ==
  << <<>>, <<DoubleRule>>, <<"Report generated: ">> \o Str(now), <<DoubleRule>> \o Str(now) >>

\* now is new Date().toLocaleString() at the time of the call.
footerLines(now) ==
  << <<>>, <<DoubleRule>>, <<"Report generated: ">> \o Str(now), <<DoubleRule>> >>

generateReport(state, clinicName, now) ==
  headerLines(clinicName)
  \o patientLines(state)
  \o subjectiveLines(state)
  \o << <<"OBJECTIVE - PHYSICAL EXAMINATION">>, <<SingleRule>> >>
  \o objectiveLines(state.findings, 1)
  \o assessmentLines(abnormalFindings(state.findings, 1))
  \o planLines(state.planNotes)
  \o footerLines(now)

\* ------------------------------------------------------- bounded exam states
\* The systems whose findings vary: the first two and the last of the catalog.
KeysInPlay == {"general", "skin", "endocrine"}

\* The fields the field handlers are applied to.
FieldsInPlay == {"temperature", "lesions", "lesionType", "pruritus"}

severityOptions == <<"Mild", "Moderate", "Severe">>

NotesValues == {"", "Pruritic for two weeks"}

ExamDates == {[date |-> "1/15/2024", time |-> "10:30:00 AM"]}

\* new Date().toLocaleString() at two times of day.
Times == {"1/15/2024, 10:31:00 AM", "1/15/2024, 10:32:00 AM"}

\* A finding marked abnormal and graded, nothing else recorded.
severeFinding(systemName) ==
  [initialFinding(systemName) EXCEPT !.isNormal = FALSE, !.severity = JsString("Severe")]

\* Findings objects holding up to three of the systems in play, in any key
\* order, each normal or severe.
PresenceFindings ==
  LET Entries == {[k |-> s, v |-> f] :
                    s \in KeysInPlay, f \in {"normal", "severe"}}
      Seqs == UNION {[1..n -> Entries] : n \in 0..Cardinality(KeysInPlay)}
      Distinct(q) == \A i, j \in DOMAIN q : q[i].k = q[j].k => i = j
  IN {[i \in DOMAIN q |->
         [k |-> q[i].k,
          v |-> IF q[i].v = "normal" THEN initialFinding(q[i].k) ELSE severeFinding(q[i].k)]] :
        q \in {r \in Seqs : Distinct(r)}}

\* Field values of the skin system, in and out of the declared field order.
SkinFieldValues ==
  { <<>>,
    << [k |-> "lesions", v |-> JsBoolean(TRUE)] >>,
    << [k |-> "lesions", v |-> JsBoolean(TRUE)], [k |-> "pruritus", v |-> JsString("Severe")] >>,
    << [k |-> "pruritus", v |-> JsString("Severe")], [k |-> "lesions", v |-> JsBoolean(TRUE)] >>,
    << [k |-> "lesionType", v |-> JsArray(<<"Papules", "Crusts">>)],
       [k |-> "lesions", v |-> JsBoolean(FALSE)] >> }

SkinFindings ==
  [systemName : {"skin"}, isNormal : BOOLEAN, severity : {JsUndefined, JsString("Moderate")},
   findings : SkinFieldValues, notes : NotesValues]

\* A finding stored under a name the catalog does not have.
OrphanName == "dental"

\* A field name no field definition of the catalog has.
UnknownFieldName == "capillaryRefill"

\* A finding record without its field-value map.
withoutFindings(finding) ==
  [systemName |-> finding.systemName, isNormal |-> finding.isNormal,
   severity |-> finding.severity, notes |-> finding.notes]

\* Findings objects of a shape the page never builds but the renderer
\* accepts: an orphaned system, a value under an unknown field name, a
\* finding without its field-value map.
ShapeFindings ==
  LET unknownField == [k |-> UnknownFieldName, v |-> JsString("2 sec")]
      temperature == [k |-> "temperature", v |-> JsNumber(101)]
      entry(name, finding) == [k |-> name, v |-> finding]
  IN
  { << entry(OrphanName, severeFinding(OrphanName)) >>,
    << entry("general", initialFinding("general")),
       entry(OrphanName, severeFinding(OrphanName)),
       entry("skin", severeFinding("skin")) >>,
    << entry("general", [initialFinding("general") EXCEPT
                           !.isNormal = FALSE, !.findings = <<unknownField>>]) >>,
    << entry("general", [severeFinding("general") EXCEPT
                           !.findings = <<unknownField, temperature>>]) >>,
    << entry("skin", withoutFindings(severeFinding("skin"))) >>,
    << entry("general", initialFinding("general")),
       entry("skin", withoutFindings([initialFinding("skin") EXCEPT !.isNormal = FALSE])) >>,
    << entry("skin", withoutFindings(initialFinding("skin"))) >>,
    << entry(OrphanName, severeFinding(OrphanName)),
       entry("skin", withoutFindings(severeFinding("skin"))),
       entry("general", [severeFinding("general") EXCEPT
                           !.findings = <<unknownField, temperature>>]) >> }

\* The exam states the renderer and the handlers are applied to.
ExamStates ==
  LET initial == createInitialExamState(CHOOSE d \in ExamDates : TRUE) IN
  {initial}
  \cup {[initial EXCEPT !.findings = fs] : fs \in PresenceFindings}
  \cup {[initial EXCEPT !.findings = objSet(@, "skin", f)] : f \in SkinFindings}
  \cup {[initial EXCEPT !.findings = fs] : fs \in ShapeFindings}

\* The values a control of the field hands to handleFieldChange.
FieldInputs(field) ==
  CASE field.type = "checkbox" -> {JsBoolean(TRUE), JsBoolean(FALSE)}
    [] field.type = "select" ->
         {JsString(field.options[i]) : i \in 1..MaxOptions}
    [] field.type = "numeric" -> {JsNumber(101), JsString("")}
    [] OTHER -> {}

\* ------------------------------------------------------------------ handlers
\* A progress view that counts a finding with notes as complete.
completedSystems_documented(findings) ==
  {findings[n].k : n \in {m \in DOMAIN findings :
                            LET finding == findings[m].v IN
                            \/ finding.isNormal
                            \/ Truthy(finding.severity) /\ finding.severity # JsString("")
                            \/ finding.notes # ""}}

\* The callback of the completedSystems memo: the keys of the findings that
\* pass finding.isNormal || (finding.severity && finding.severity !== "").
completedSystems(findings) ==
  {findings[n].k : n \in {m \in DOMAIN findings :
                            LET finding == findings[m].v IN
                            \/ finding.isNormal
                            \/ Truthy(finding.severity) /\ finding.severity # JsString("")}}

\* setExamState followed by the render: the completedSystems memo is
\* recomputed when examState.findings changed, generatedReport always.
setExamState(next) ==
  /\ examState' = next
  /\ completedView' = IF next.findings = examState.findings
                        THEN completedView
                        ELSE completedSystems(next.findings)
  /\ \E now \in Times : report' = generateReport(next, DefaultClinicName, now)

\* handleFindingChange of the page, the onFindingChange of every SystemCard.
handleFindingChange(systemName, finding) ==
  setExamState([examState EXCEPT !.findings = objSet(@, systemName, finding)])

\* The card of a system is operable: an edit is left and the card has its
\* finding with the field-value map renderField reads.
CanEdit(config) ==
  /\ budget > 0
  /\ hasFinding(objGet(examState.findings, config.name))
  /\ "findings" \in DOMAIN objGet(examState.findings, config.name)

storeVars == <<tables, nextExamId, nextFindingId, pc, result, hist, siteVars>>

\* A toggle that starts the finding over when it is marked normal.
handleNormalToggle_clearingFields(config, isNormal) ==
  LET finding == objGet(examState.findings, config.name) IN
  /\ CanEdit(config)
  /\ budget' = budget - 1
  /\ handleFindingChange(config.name,
       [finding EXCEPT !.isNormal = isNormal,
                       !.severity = IF isNormal THEN JsUndefined ELSE @,
                       !.findings = IF isNormal THEN <<>> ELSE @])
  /\ UNCHANGED storeVars

\* A toggle that leaves the severity as it is.
handleNormalToggle_keepingSeverity(config, isNormal) ==
  LET finding == objGet(examState.findings, config.name) IN
  /\ CanEdit(config)
  /\ budget' = budget - 1
  /\ handleFindingChange(config.name, [finding EXCEPT !.isNormal = isNormal])
  /\ UNCHANGED storeVars

handleNormalToggle(config, isNormal) ==
  LET finding == objGet(examState.findings, config.name) IN
  /\ CanEdit(config)
  /\ budget' = budget - 1
  /\ handleFindingChange(config.name,
       [finding EXCEPT !.isNormal = isNormal,
                       !.severity = IF isNormal THEN JsUndefined ELSE @])
  /\ UNCHANGED storeVars

\* The severity buttons are rendered only while the finding is abnormal.
handleSeverityChange(config, severity) ==
  LET finding == objGet(examState.findings, config.name) IN
  /\ CanEdit(config)
  /\ ~finding.isNormal
  /\ budget' = budget - 1
  /\ handleFindingChange(config.name, [finding EXCEPT !.severity = JsString(severity)])
  /\ UNCHANGED storeVars

handleFieldChange(config, fieldName, value) ==
  LET finding == objGet(examState.findings, config.name) IN
  /\ CanEdit(config)
  /\ budget' = budget - 1
  /\ handleFindingChange(config.name,
       [finding EXCEPT !.findings = objSet(@, fieldName, value)])
  /\ UNCHANGED storeVars

handleNotesChange(config, notes) ==
  LET finding == objGet(examState.findings, config.name) IN
  /\ CanEdit(config)
  /\ budget' = budget - 1
  /\ handleFindingChange(config.name, [finding EXCEPT !.notes = notes])
  /\ UNCHANGED storeVars

\* currentValues.includes(option)
includes(arr, option) == \E i \in DOMAIN arr : arr[i] = option

handleMultiselectToggle(config, fieldName, option) ==
  LET finding == objGet(examState.findings, config.name)
      stored == objGet(finding.findings, fieldName)
      currentValues == IF Truthy(stored) THEN stored.v ELSE <<>>
      newValues == IF includes(currentValues, option)
                     THEN SelectSeq(currentValues, LAMBDA v : v # option)
                     ELSE Append(currentValues, option)
  IN
  /\ CanEdit(config)
  /\ budget' = budget - 1
  /\ handleFindingChange(config.name,
       [finding EXCEPT !.findings = objSet(@, fieldName, JsArray(newValues))])
  /\ UNCHANGED storeVars

\* The fields and values handlePatientChange is applied to.
PatientInputs ==
  {<<"name", "Rex">>, <<"name", "">>, <<"species", "canine">>, <<"clientName", "Ada Moyo">>}

\* A setter that forgets the spread of prev.patient.
handlePatientChange_replacing(field, value) ==
  /\ budget > 0
  /\ budget' = budget - 1
  /\ setExamState([examState EXCEPT !.patient = << [k |-> field, v |-> JsString(value)] >>])
  /\ UNCHANGED storeVars

handlePatientChange(field, value) ==
  /\ budget > 0
  /\ budget' = budget - 1
  /\ setExamState([examState EXCEPT !.patient = objSet(@, field, JsString(value))])
  /\ UNCHANGED storeVars

\* The Mark Complete button of a system card.
handleSystemComplete(systemName) ==
  /\ budget > 0
  /\ budget' = budget - 1
  /\ setExamState([examState EXCEPT !.completedSystems = @ \cup {systemName}])
  /\ UNCHANGED storeVars

\* What is typed into the examiner, presenting complaint and plan fields.
ExaminerInputs == {"", "Dr. Banda"}
ComplaintInputs == {"", "Itching"}
PlanInputs == {"", "Recheck in two weeks"}

handlePresentingComplaintChange(value) ==
  /\ budget > 0
  /\ budget' = budget - 1
  /\ setExamState([examState EXCEPT !.presentingComplaint = value])
  /\ UNCHANGED storeVars

handlePlanNotesChange(value) ==
  /\ budget > 0
  /\ budget' = budget - 1
  /\ setExamState([examState EXCEPT !.planNotes = value])
  /\ UNCHANGED storeVars

handleExaminerChange(value) ==
  /\ budget > 0
  /\ budget' = budget - 1
  /\ setExamState([examState EXCEPT !.examiner = value])
  /\ UNCHANGED storeVars

\* ------------------------------------------------------------ saveExamMutation
CLINICAL_STAFF == {"admin", "veterinarian", "technician"}
VET_OR_ADMIN == {"admin", "veterinarian"}

\* Guards that let every authenticated user through.
requireRole_anyRole(user, allowedRoles) ==
  IF ~users[user].exists THEN "401" ELSE "next"

\* requireAuth and requireRole(allowedRoles) for the session of user; a user
\* without a row stands for a session that is not authenticated.
requireRole(user, allowedRoles) ==
  IF ~users[user].exists THEN "401"
  ELSE IF users[user].role \notin allowedRoles THEN "403"
  ELSE "next"

\* x || d in a request body.
orDefault(x, d) == IF Truthy(x) THEN x.v ELSE d

\* The body of the page's POST /api/patients.
patientBody(state) ==
  [name |-> orDefault(objGet(state.patient, "name"), "Unknown Patient"),
   species |-> orDefault(objGet(state.patient, "species"), "canine"),
   sex |-> orDefault(objGet(state.patient, "sex"), "unknown"),
   neuterStatus |-> orDefault(objGet(state.patient, "neuterStatus"), "unknown"),
   clientName |-> orDefault(objGet(state.patient, "clientName"), "Unknown Client")]

insertPatientSchema(body) ==
  /\ body.name # "" /\ body.species # "" /\ body.sex # ""
  /\ body.neuterStatus # "" /\ body.clientName # ""

\* The body of the page's POST /api/exams.
examBody(state, patientId) ==
  [patientId |-> patientId, status |-> "complete", planNotes |-> state.planNotes]

\* insertExamSchema: status is optional and of examStatusEnum.
insertExamSchema(body) == body.status \in examStatusEnum \cup {Absent}

\* saveExamMutation.isPending
isPending == \E q \in Procs : pc[q].op = "saveExamMutation"

\* mutate(): the mutation starts and POST /api/patients is served: the guards,
\* the validation and storage.createPatient, whose insert draws a fresh id.  A
\* rejected response makes apiRequest throw, which ends the mutation.
saveExamMutation_postPatients(p, user) ==
  /\ CanStart(p)
  /\ ~isPending
  /\ budget' = budget - 1
  /\ IF requireRole(user, CLINICAL_STAFF) # "next"
       THEN /\ Finish(p, [op |-> "saveExamMutation", res |-> requireRole(user, CLINICAL_STAFF)])
            /\ UNCHANGED patients
       ELSE IF ~insertPatientSchema(patientBody(examState))
         THEN /\ Finish(p, [op |-> "saveExamMutation", res |-> "400"])
              /\ UNCHANGED patients
         ELSE \E id \in PatientIds :
                /\ ~patients[id].exists
                /\ patients' = [patients EXCEPT ![id] = [exists |-> TRUE, isActive |-> TRUE]]
                /\ pc' = [pc EXCEPT ![p] = [op |-> "saveExamMutation", step |-> "postExams",
                                            user |-> user, patientId |-> id]]
                /\ UNCHANGED result
  /\ UNCHANGED <<client, siteVars, users, exams, examFindings, nextExamId, nextFindingId, hist>>

\* POST /api/exams is served: the guards and the validation.  A body that
\* passed would go on to storage.createExam; the body the page sends does not.
saveExamMutation_postExams(p) ==
  /\ pc[p].op = "saveExamMutation" /\ pc[p].step = "postExams"
  /\ IF requireRole(pc[p].user, VET_OR_ADMIN) # "next"
       THEN Finish(p, [op |-> "saveExamMutation", res |-> requireRole(pc[p].user, VET_OR_ADMIN)])
       ELSE IF ~insertExamSchema(examBody(examState, pc[p].patientId))
         THEN Finish(p, [op |-> "saveExamMutation", res |-> "400"])
         ELSE /\ pc' = [pc EXCEPT ![p].step = "createExam"]
              /\ UNCHANGED result
  /\ UNCHANGED <<client, siteVars, tables, nextExamId, nextFindingId, budget, hist>>

\* The page before any exam is entered.
InitClientIdle ==
  /\ examState = createInitialExamState(CHOOSE d \in ExamDates : TRUE)
  /\ completedView = completedSystems(examState.findings)
  /\ report = generateReport(examState, DefaultClinicName, CHOOSE t \in Times : TRUE)

\* ------------------------------------------------------ createUser / updateUser
MaxUserCalls == 3

\* The values of InsertUser that the calls are tried on.
InsertUserValues == [username : {"vet", "kim"}, email : {"vet@clinic", "kim@clinic"}]

\* UpdateUser, as far as username and email go.
UpdateUserValues ==
  {[username |-> "kim", email |-> Absent], [username |-> Absent, email |-> "kim@clinic"],
   [username |-> "vet", email |-> "kim@clinic"]}

\* The users table when accounts are managed: two accounts, two free ids.
InitUserRows ==
  [u \in UserIds |->
     CASE u = "vet" -> [exists |-> TRUE, role |-> "veterinarian", isActive |-> TRUE,
                        username |-> "vet", email |-> "vet@clinic"]
       [] u = "adm" -> [exists |-> TRUE, role |-> "admin", isActive |-> TRUE,
                        username |-> "adm", email |-> "adm@clinic"]
       [] OTHER -> NoRow]

\* getUserByUsername / getUserByEmail return a row.
getUserByUsername(tbl, username) ==
  \E u \in UserIds : tbl[u].exists /\ tbl[u].username = username
getUserByEmail(tbl, email) ==
  \E u \in UserIds : tbl[u].exists /\ tbl[u].email = email

\* users_username_idx and users_email_idx accept the row under id.
usersUniqueIndexes(tbl, id, row) ==
  \A u \in UserIds \ {id} :
    tbl[u].exists => tbl[u].username # row.username /\ tbl[u].email # row.email

createUser_getUserByUsername(p, insertUser) ==
  /\ CanStart(p)
  /\ budget' = budget - 1
  /\ IF getUserByUsername(users, insertUser.username)
       THEN Finish(p, [op |-> "createUser", res |-> "DuplicateError"])
       ELSE /\ pc' = [pc EXCEPT ![p] = [op |-> "createUser", step |-> "getUserByEmail",
                                        insertUser |-> insertUser]]
            /\ UNCHANGED result
  /\ UNCHANGED <<client, siteVars, tables, nextExamId, nextFindingId, hist>>

createUser_getUserByEmail(p) ==
  /\ pc[p].op = "createUser" /\ pc[p].step = "getUserByEmail"
  /\ IF getUserByEmail(users, pc[p].insertUser.email)
       THEN Finish(p, [op |-> "createUser", res |-> "DuplicateError"])
       ELSE /\ pc' = [pc EXCEPT ![p].step = "insert"]
            /\ UNCHANGED result
  /\ UNCHANGED <<client, siteVars, tables, nextExamId, nextFindingId, budget, hist>>

\* The insert under a fresh id; it fails on a unique index when another row
\* has taken the username or the email by now.
createUser_insert(p) ==
  /\ pc[p].op = "createUser" /\ pc[p].step = "insert"
  /\ \E u \in UserIds : ~users[u].exists
  /\ LET id == CHOOSE u \in UserIds : ~users[u].exists
         row == [exists |-> TRUE, role |-> "receptionist", isActive |-> TRUE,
                 username |-> pc[p].insertUser.username, email |-> pc[p].insertUser.email]
     IN IF usersUniqueIndexes(users, id, row)
          THEN /\ users' = [users EXCEPT ![id] = row]
               /\ Finish(p, [op |-> "createUser", res |-> "ok"])
          ELSE /\ UNCHANGED users
               /\ Finish(p, [op |-> "createUser", res |-> "DbError"])
  /\ UNCHANGED <<client, siteVars, patients, exams, examFindings, nextExamId, nextFindingId, budget, hist>>

\* The await updateUser reaches next, given the row it read.
updateUserStep(existing, userData, after) ==
  IF /\ after = "getUser"
     /\ userData.username # Absent /\ userData.username # existing.username
    THEN "getUserByUsername"
  ELSE IF /\ after \in {"getUser", "getUserByUsername"}
          /\ userData.email # Absent /\ userData.email # existing.email
    THEN "getUserByEmail"
  ELSE "update"

updateUser_getUser(p, id, userData) ==
  /\ CanStart(p)
  /\ budget' = budget - 1
  /\ IF ~users[id].exists
       THEN Finish(p, [op |-> "updateUser", res |-> "NotFound"])
       ELSE /\ pc' = [pc EXCEPT ![p] =
                        [op |-> "updateUser", step |-> updateUserStep(users[id], userData, "getUser"),
                         id |-> id, userData |-> userData, existing |-> users[id]]]
            /\ UNCHANGED result
  /\ UNCHANGED <<client, siteVars, tables, nextExamId, nextFindingId, hist>>

updateUser_getUserByUsername(p) ==
  /\ pc[p].op = "updateUser" /\ pc[p].step = "getUserByUsername"
  /\ IF getUserByUsername(users, pc[p].userData.username)
       THEN Finish(p, [op |-> "updateUser", res |-> "DuplicateError"])
       ELSE /\ pc' = [pc EXCEPT ![p].step =
                        updateUserStep(pc[p].existing, pc[p].userData, "getUserByUsername")]
            /\ UNCHANGED result
  /\ UNCHANGED <<client, siteVars, tables, nextExamId, nextFindingId, budget, hist>>

updateUser_getUserByEmail(p) ==
  /\ pc[p].op = "updateUser" /\ pc[p].step = "getUserByEmail"
  /\ IF getUserByEmail(users, pc[p].userData.email)
       THEN Finish(p, [op |-> "updateUser", res |-> "DuplicateError"])
       ELSE /\ pc' = [pc EXCEPT ![p].step = "update"]
            /\ UNCHANGED result
  /\ UNCHANGED <<client, siteVars, tables, nextExamId, nextFindingId, budget, hist>>

\* UPDATE users SET ...userData WHERE id = $1
updateUser_update(p) ==
  /\ pc[p].op = "updateUser" /\ pc[p].step = "update"
  /\ LET userData == pc[p].userData
         row == [users[pc[p].id] EXCEPT
                   !.username = IF userData.username = Absent THEN @ ELSE userData.username,
                   !.email = IF userData.email = Absent THEN @ ELSE userData.email]
     IN IF usersUniqueIndexes(users, pc[p].id, row)
          THEN /\ users' = [users EXCEPT ![pc[p].id] = row]
               /\ Finish(p, [op |-> "updateUser", res |-> "ok"])
          ELSE /\ UNCHANGED users
               /\ Finish(p, [op |-> "updateUser", res |-> "DbError"])
  /\ UNCHANGED <<client, siteVars, patients, exams, examFindings, nextExamId, nextFindingId, budget, hist>>

\* ----------------------------------------------------- sessions and role guards
MaxAuthCalls == 4

ADMIN_ONLY == {"admin"}
userRoleEnum == {"admin", "veterinarian", "technician", "receptionist"}

\* bcrypt.hash and bcrypt.compare: a hash is not the password it was made from.
hashPassword(password) == <<"bcrypt", password>>
verifyPassword(password, hashedPassword) == hashedPassword = hashPassword(password)

\* const { password, ...safeUser } = user
sanitizeUser(user) == [f \in DOMAIN user \ {"password"} |-> user[f]]

\* The users table when requests are authorized: an admin, a second account
\* that is a veterinarian or an admin, a technician, and an id without a row.
AuthUserRows(second) ==
  [u \in UserIds |->
     CASE u = "adm" -> [exists |-> TRUE, id |-> u, username |-> "adm", role |-> "admin",
                        isActive |-> TRUE, password |-> hashPassword("pa")]
       [] u = "vet" -> [exists |-> TRUE, id |-> u, username |-> "vet", role |-> second,
                        isActive |-> TRUE, password |-> hashPassword("pv")]
       [] u = "tech" -> [exists |-> TRUE, id |-> u, username |-> "tech", role |-> "technician",
                         isActive |-> TRUE, password |-> hashPassword("pt")]
       [] OTHER -> NoRow]

\* The request bodies POST /api/auth/login is tried on.
LoginBodies ==
  {[username |-> "adm", password |-> "pa"], [username |-> "vet", password |-> "pv"],
   [username |-> "tech", password |-> "pt"], [username |-> "adm", password |-> "pv"],
   [username |-> "ghost", password |-> "pa"], [username |-> "", password |-> "pa"],
   [username |-> "vet", password |-> ""]}

\* The session cookie a request carries names the user id serialized into it.
Cookies == {"adm", "vet", "tech"}

\* The roles PUT /api/users/:id/role is tried on ("intern" is no UserRole).
RoleInputs == {"admin", "technician", "intern"}

loginUserSchema(body) == body.username # "" /\ body.password # ""

\* A verify callback that does not look at isActive.
LocalStrategy_ignoringActive(body) ==
  IF ~getUserByUsername(users, body.username) THEN NoRow
  ELSE LET user == users[CHOOSE u \in UserIds : users[u].exists /\ users[u].username = body.username]
       IN IF ~verifyPassword(body.password, user.password) THEN NoRow
          ELSE sanitizeUser(user)

\* The verify callback of the local strategy: the user handed to done, or
\* NoRow for done(null, false).
LocalStrategy(body) ==
  IF ~getUserByUsername(users, body.username) THEN NoRow
  ELSE LET user == users[CHOOSE u \in UserIds : users[u].exists /\ users[u].username = body.username]
       IN IF ~user.isActive THEN NoRow
          ELSE IF ~verifyPassword(body.password, user.password) THEN NoRow
          ELSE sanitizeUser(user)

\* POST /api/auth/login: the validation, passport.authenticate and req.login,
\* which serializes user.id into the session.  The strategy reads the users
\* table once and nothing after that read looks at the table again.
postLogin(p, body) ==
  /\ CanStart(p)
  /\ budget' = budget - 1
  /\ IF ~loginUserSchema(body)
       THEN /\ Finish(p, [op |-> "postLogin", res |-> "400", body |-> body])
            /\ UNCHANGED sessions
       ELSE LET user == LocalStrategy(body) IN
            IF ~user.exists
              THEN /\ Finish(p, [op |-> "postLogin", res |-> "401", body |-> body])
                   /\ UNCHANGED sessions
              ELSE /\ sessions' = sessions \cup {user.id}
                   /\ Finish(p, [op |-> "postLogin", res |-> "200", body |-> body, user |-> user])
  /\ UNCHANGED <<client, clinicSettings, tables, nextExamId, nextFindingId, hist>>

\* passport.deserializeUser for the session of cookie: req.user, or NoRow when
\* the request is not authenticated.
deserializeUser(cookie) ==
  IF cookie \in sessions /\ users[cookie].exists THEN sanitizeUser(users[cookie]) ELSE NoRow

\* requireAuth, requireRole(allowedRoles) on a request with this cookie.
routeGuards(cookie, allowedRoles) ==
  IF ~deserializeUser(cookie).exists THEN "401" ELSE requireRole(cookie, allowedRoles)

\* PUT /api/users/:id/role up to its call of storage.updateUserRole.
putRole_guards(p, cookie, id, role) ==
  /\ CanStart(p)
  /\ budget' = budget - 1
  /\ IF routeGuards(cookie, ADMIN_ONLY) # "next"
       THEN Finish(p, [op |-> "putRole", res |-> routeGuards(cookie, ADMIN_ONLY), cookie |-> cookie])
       ELSE IF role \notin userRoleEnum
         THEN Finish(p, [op |-> "putRole", res |-> "400", cookie |-> cookie])
         ELSE IF id = deserializeUser(cookie).id /\ role # "admin"
           THEN Finish(p, [op |-> "putRole", res |-> "400", cookie |-> cookie])
           ELSE /\ pc' = [pc EXCEPT ![p] = [op |-> "putRole", step |-> "getUser",
                                            user |-> deserializeUser(cookie), id |-> id, role |-> role]]
                /\ UNCHANGED result
  /\ UNCHANGED <<client, siteVars, tables, nextExamId, nextFindingId, hist>>

updateUserRole_getUser(p) ==
  /\ pc[p].op = "putRole" /\ pc[p].step = "getUser"
  /\ IF ~users[pc[p].id].exists
       THEN Finish(p, [op |-> "putRole", res |-> "NotFound", cookie |-> pc[p].user.id])
       ELSE /\ pc' = [pc EXCEPT ![p].step = "update"]
            /\ UNCHANGED result
  /\ UNCHANGED <<client, siteVars, tables, nextExamId, nextFindingId, budget, hist>>

updateUserRole_update(p) ==
  /\ pc[p].op = "putRole" /\ pc[p].step = "update"
  /\ IF users[pc[p].id].exists
       THEN /\ users' = [users EXCEPT ![pc[p].id].role = pc[p].role]
            /\ Finish(p, [op |-> "putRole", res |-> "200", cookie |-> pc[p].user.id])
       ELSE /\ UNCHANGED users
            /\ Finish(p, [op |-> "putRole", res |-> "UPDATE_FAILED", cookie |-> pc[p].user.id])
  /\ UNCHANGED <<client, siteVars, patients, exams, examFindings, nextExamId, nextFindingId, budget, hist>>

\* PUT /api/users/:id/deactivate up to its call of storage.deactivateUser.
putDeactivate_guards(p, cookie, id) ==
  /\ CanStart(p)
  /\ budget' = budget - 1
  /\ IF routeGuards(cookie, ADMIN_ONLY) # "next"
       THEN Finish(p, [op |-> "putDeactivate", res |-> routeGuards(cookie, ADMIN_ONLY), cookie |-> cookie])
       ELSE IF id = deserializeUser(cookie).id
         THEN Finish(p, [op |-> "putDeactivate", res |-> "400", cookie |-> cookie])
         ELSE /\ pc' = [pc EXCEPT ![p] = [op |-> "putDeactivate", step |-> "getUser",
                                          user |-> deserializeUser(cookie), id |-> id]]
              /\ UNCHANGED result
  /\ UNCHANGED <<client, siteVars, tables, nextExamId, nextFindingId, hist>>

deactivateUser_getUser(p) ==
  /\ pc[p].op = "putDeactivate" /\ pc[p].step = "getUser"
  /\ IF ~users[pc[p].id].exists
       THEN Finish(p, [op |-> "putDeactivate", res |-> "NotFound", cookie |-> pc[p].user.id])
       ELSE IF ~users[pc[p].id].isActive
         THEN Finish(p, [op |-> "putDeactivate", res |-> "ValidationError", cookie |-> pc[p].user.id])
         ELSE /\ pc' = [pc EXCEPT ![p].step = "update"]
              /\ UNCHANGED result
  /\ UNCHANGED <<client, siteVars, tables, nextExamId, nextFindingId, budget, hist>>

deactivateUser_update(p) ==
  /\ pc[p].op = "putDeactivate" /\ pc[p].step = "update"
  /\ IF users[pc[p].id].exists
       THEN /\ users' = [users EXCEPT ![pc[p].id].isActive = FALSE]
            /\ Finish(p, [op |-> "putDeactivate", res |-> "200", cookie |-> pc[p].user.id])
       ELSE /\ UNCHANGED users
            /\ Finish(p, [op |-> "putDeactivate", res |-> "UPDATE_FAILED", cookie |-> pc[p].user.id])
  /\ UNCHANGED <<client, siteVars, patients, exams, examFindings, nextExamId, nextFindingId, budget, hist>>

\* POST /api/exams/:id/sign up to its first read.
postSign_guards(p, cookie, id) ==
  /\ CanStart(p)
  /\ budget' = budget - 1
  /\ IF routeGuards(cookie, VET_OR_ADMIN) # "next"
       THEN Finish(p, [op |-> "postSign", res |-> routeGuards(cookie, VET_OR_ADMIN), cookie |-> cookie])
       ELSE /\ pc' = [pc EXCEPT ![p] = [op |-> "postSign", step |-> "getExam",
                                        user |-> deserializeUser(cookie), id |-> id]]
            /\ UNCHANGED result
  /\ UNCHANGED <<client, siteVars, tables, nextExamId, nextFindingId, hist>>

\* The handler's own storage.getExam and its two early returns.
postSign_getExam(p) ==
  /\ pc[p].op = "postSign" /\ pc[p].step = "getExam"
  /\ IF ~exams[pc[p].id].exists
       THEN Finish(p, [op |-> "postSign", res |-> "404", cookie |-> pc[p].user.id])
       ELSE IF exams[pc[p].id].status = "signed"
         THEN Finish(p, [op |-> "postSign", res |-> "400", cookie |-> pc[p].user.id])
         ELSE /\ pc' = [pc EXCEPT ![p].step = "signExam"]
              /\ UNCHANGED result
  /\ UNCHANGED <<client, siteVars, tables, nextExamId, nextFindingId, budget, hist>>

\* storage.signExam(req.params.id, req.user.id) is entered: its getExam; the
\* call goes on with signExam_getUser and signExam_update.
postSign_signExam(p) ==
  /\ pc[p].op = "postSign" /\ pc[p].step = "signExam"
  /\ LET id == pc[p].id
         examinerId == pc[p].user.id IN
     IF ~exams[id].exists
       THEN Finish(p, [op |-> "signExam", res |-> "NotFound", id |-> id, examinerId |-> examinerId])
       ELSE IF ~signStatusGuard(exams[id])
         THEN Finish(p, [op |-> "signExam", res |-> "AlreadySigned", id |-> id, examinerId |-> examinerId])
         ELSE /\ pc' = [pc EXCEPT ![p] =
                          [op |-> "signExam", step |-> "getUser", id |-> id, examinerId |-> examinerId]]
              /\ UNCHANGED result
  /\ UNCHANGED <<client, siteVars, tables, nextExamId, nextFindingId, budget, hist>>

\* ------------------------------------------------------------------ pagination
MaxListCalls == 1

DEFAULT_PAGE == 1
DEFAULT_LIMIT == 20
MAX_LIMIT == 100

MathMax(a, b) == IF a >= b THEN a ELSE b
MathMin(a, b) == IF a <= b THEN a ELSE b

\* Math.ceil(total / limit) for a count and a limit of at least 1.
MathCeilDiv(total, limit) == (total + limit - 1) \div limit

\* x ?? d on a number or undefined.
nullish(x, d) == IF x \in {JsUndefined, JsNull} THEN d ELSE x.v

\* PaginationParams as the storage methods are handed them; a missing params
\* object reads like one with both fields undefined (params?.page).
PageInputs == {JsUndefined} \cup {JsNumber(n) : n \in {-2, 0, 1, 2, 3, 4}}
LimitInputs == {JsUndefined} \cup {JsNumber(n) : n \in {-1, 0, 1, 2, 20, 100, 101, 250}}
PaginationInputs == [page : PageInputs, limit : LimitInputs]

\* What count() may return.
CountResults == {0, 1, 2, 3, 20, 21, 100, 101, 250}

\* The query strings GET /api/users is tried on: a field is missing, a
\* numeric string (given as its number), empty, or not a number.
QueryInputs ==
  [page : {JsUndefined, JsString(""), JsString("abc")} \cup {JsNumber(n) : n \in {-2, 0, 2, 3}},
   limit : {JsUndefined, JsString("abc")} \cup {JsNumber(n) : n \in {0, 2, 100, 101}}]

\* A normalization that does not cap the limit.
normalizePagination_uncapped(params) ==
  LET page == MathMax(1, nullish(params.page, DEFAULT_PAGE))
      limit == MathMax(1, nullish(params.limit, DEFAULT_LIMIT))
  IN [page |-> page, limit |-> limit, offset |-> (page - 1) * limit]

normalizePagination(params) ==
  LET page == MathMax(1, nullish(params.page, DEFAULT_PAGE))
      limit == MathMin(MAX_LIMIT, MathMax(1, nullish(params.limit, DEFAULT_LIMIT)))
  IN [page |-> page, limit |-> limit, offset |-> (page - 1) * limit]

createPaginatedResult(total, page, limit) ==
  LET totalPages == MathCeilDiv(total, limit)
  IN [page |-> page, limit |-> limit, total |-> total, totalPages |-> totalPages,
      hasMore |-> page < totalPages]

\* z.coerce.number().int().positive(): Number(value) of a query value, and
\* whether it passes (max 0 stands for no maximum).
coerceNumber(value) ==
  IF value.t = "number" THEN value
  ELSE IF value = JsString("") THEN JsNumber(0)
  ELSE [t |-> "NaN"]
positiveInt(value, max) ==
  /\ coerceNumber(value).t = "number"
  /\ coerceNumber(value).v > 0
  /\ max > 0 => coerceNumber(value).v <= max

\* parsePagination: the parsed query, or {page: 1, limit: 20} when any field
\* of it fails paginationSchema.
parsePagination(query) ==
  IF /\ query.page = JsUndefined \/ positiveInt(query.page, 0)
     /\ query.limit = JsUndefined \/ positiveInt(query.limit, 100)
    THEN [page |-> IF query.page = JsUndefined THEN JsNumber(1) ELSE coerceNumber(query.page),
          limit |-> IF query.limit = JsUndefined THEN JsNumber(20) ELSE coerceNumber(query.limit)]
    ELSE [page |-> JsNumber(1), limit |-> JsNumber(20)]

\* What getAllUsers returns for these params when count() returns total.
paginated(params, total) ==
  LET n == normalizePagination(params)
  IN [op |-> "getAllUsers", res |-> "ok", params |-> params, normalized |-> n,
      pagination |-> createPaginatedResult(total, n.page, n.limit)]

\* storage.getAllUsers(pagination), as every paginated method does it.
getAllUsers(p, pagination) ==
  /\ CanStart(p)
  /\ budget' = budget - 1
  /\ \E total \in CountResults : Finish(p, paginated(pagination, total))
  /\ UNCHANGED <<client, siteVars, tables, nextExamId, nextFindingId, hist>>

\* The handler of GET /api/users: parsePagination(req.query), then
\* storage.getAllUsers.
getUsers(p, query) ==
  /\ CanStart(p)
  /\ budget' = budget - 1
  /\ \E total \in CountResults : Finish(p, paginated(parsePagination(query), total))
  /\ UNCHANGED <<client, siteVars, tables, nextExamId, nextFindingId, hist>>

\* ------------------------------------------------------------- clinic settings
MaxSettingsCalls == 3

\* The bodies PUT /api/clinic-settings is tried on.
SettingsBodies == {[clinicName |-> Absent], [clinicName |-> "Clinic A"], [clinicName |-> ""]}

\* updateClinicSettingsSchema: clinicName is optional and not empty.
updateClinicSettingsSchema(body) == body.clinicName # ""

\* getClinicSettings: the row created last, or NoRow.
getClinicSettings(tbl) ==
  IF \A s \in SettingsIds : ~tbl[s].exists THEN NoRow
  ELSE LET s == CHOOSE s \in SettingsIds :
                  /\ tbl[s].exists
                  /\ \A t \in SettingsIds : tbl[t].exists => tbl[t].createdAt <= tbl[s].createdAt
       IN [id |-> s] @@ tbl[s]

\* PUT /api/clinic-settings up to its first read.
putClinicSettings_guards(p, cookie, body) ==
  /\ CanStart(p)
  /\ budget' = budget - 1
  /\ IF routeGuards(cookie, ADMIN_ONLY) # "next"
       THEN Finish(p, [op |-> "putClinicSettings", res |-> routeGuards(cookie, ADMIN_ONLY)])
       ELSE IF ~updateClinicSettingsSchema(body)
         THEN Finish(p, [op |-> "putClinicSettings", res |-> "400"])
         ELSE /\ pc' = [pc EXCEPT ![p] = [op |-> "putClinicSettings", step |-> "getClinicSettings",
                                          body |-> body]]
              /\ UNCHANGED result
  /\ UNCHANGED <<client, siteVars, tables, nextExamId, nextFindingId, hist>>

\* The handler's storage.getClinicSettings: update the row it finds, or
\* create one.
putClinicSettings_getClinicSettings(p) ==
  /\ pc[p].op = "putClinicSettings" /\ pc[p].step = "getClinicSettings"
  /\ LET existingSettings == getClinicSettings(clinicSettings) IN
     IF existingSettings.exists
       THEN pc' = [pc EXCEPT ![p] = [op |-> "updateClinicSettings", step |-> "select",
                                     id |-> existingSettings.id, body |-> pc[p].body]]
       ELSE pc' = [pc EXCEPT ![p] =
                     [op |-> "createClinicSettings", step |-> "getClinicSettings",
                      settings |-> [clinicName |-> IF pc[p].body.clinicName = Absent
                                                     THEN "Kaseketi Veterinary Clinic"
                                                     ELSE pc[p].body.clinicName]]]
  /\ UNCHANGED <<client, siteVars, tables, nextExamId, nextFindingId, result, budget, hist>>

createClinicSettings_getClinicSettings(p) ==
  /\ pc[p].op = "createClinicSettings" /\ pc[p].step = "getClinicSettings"
  /\ IF getClinicSettings(clinicSettings).exists
       THEN Finish(p, [op |-> "createClinicSettings", res |-> "DuplicateError"])
       ELSE /\ pc' = [pc EXCEPT ![p].step = "insert"]
            /\ UNCHANGED result
  /\ UNCHANGED <<client, siteVars, tables, nextExamId, nextFindingId, budget, hist>>

\* insert: the primary key is the only constraint of clinic_settings.
createClinicSettings_insert(p) ==
  /\ pc[p].op = "createClinicSettings" /\ pc[p].step = "insert"
  /\ \E s \in SettingsIds :
       /\ ~clinicSettings[s].exists
       /\ clinicSettings' =
            [clinicSettings EXCEPT ![s] =
               [exists |-> TRUE, clinicName |-> pc[p].settings.clinicName,
                createdAt |-> Cardinality({t \in SettingsIds : clinicSettings[t].exists}) + 1]]
  /\ Finish(p, [op |-> "createClinicSettings", res |-> "ok"])
  /\ UNCHANGED <<client, sessions, tables, nextExamId, nextFindingId, budget, hist>>

updateClinicSettings_select(p) ==
  /\ pc[p].op = "updateClinicSettings" /\ pc[p].step = "select"
  /\ IF ~clinicSettings[pc[p].id].exists
       THEN Finish(p, [op |-> "updateClinicSettings", res |-> "NotFound"])
       ELSE /\ pc' = [pc EXCEPT ![p].step = "update"]
            /\ UNCHANGED result
  /\ UNCHANGED <<client, siteVars, tables, nextExamId, nextFindingId, budget, hist>>

updateClinicSettings_update(p) ==
  /\ pc[p].op = "updateClinicSettings" /\ pc[p].step = "update"
  /\ IF clinicSettings[pc[p].id].exists
       THEN /\ clinicSettings' =
                 [clinicSettings EXCEPT ![pc[p].id].clinicName =
                    IF pc[p].body.clinicName = Absent THEN @ ELSE pc[p].body.clinicName]
            /\ Finish(p, [op |-> "updateClinicSettings", res |-> "ok"])
       ELSE /\ UNCHANGED clinicSettings
            /\ Finish(p, [op |-> "updateClinicSettings", res |-> "UPDATE_FAILED"])
  /\ UNCHANGED <<client, sessions, tables, nextExamId, nextFindingId, budget, hist>>

\* ---------------------------------------------------------- specifications
Init == InitTables /\ budget = MaxCalls /\ InitClientIdle

InitCreate == InitTables /\ budget = MaxCreateCalls /\ InitClientIdle

\* The lifecycle of stored exams: concurrent create, update, sign and delete
\* calls on exams and on their findings.
Next ==
  \E p \in Procs :
    \/ \E exam \in InsertExamValues : createExam_getPatient(p, exam)
    \/ createExam_insert(p)
    \/ \E id \in ExamIds, examData \in UpdateExamValues : updateExam_getExam(p, id, examData)
    \/ updateExam_update(p)
    \/ \E id \in ExamIds, examinerId \in UserIds : signExam_getExam(p, id, examinerId)
    \/ signExam_getUser(p)
    \/ signExam_update(p)
    \/ \E id \in ExamIds : deleteExam_getExam(p, id)
    \/ deleteExam_delete(p)
    \/ \E finding \in InsertFindingValues : createExamFinding_getExam(p, finding)
    \/ createExamFinding_insert(p)
    \/ \E id \in FindingIds, findingData \in UpdateFindingValues :
         updateExamFinding_select(p, id, findingData)
    \/ updateExamFinding_getExam(p)
    \/ updateExamFinding_update(p)
    \/ \E id \in FindingIds : deleteExamFinding_select(p, id)
    \/ deleteExamFinding_getExam(p)
    \/ deleteExamFinding_delete(p)

Spec == Init /\ [][Next]_vars

\* The creation of exams: concurrent createExam, createExamWithFindings and
\* softDeletePatient calls.
NextCreate ==
  \E p \in Procs :
    \/ \E id \in PatientIds : softDeletePatient_getPatient(p, id)
    \/ softDeletePatient_update(p)
    \/ \E exam \in InsertExamValues : createExam_getPatient(p, exam)
    \/ createExam_insert(p)
    \/ \E examData \in InsertExamValues, findingsData \in TxFindingSeqs :
         createExamWithFindings_getPatient(p, examData, findingsData)
    \/ createExamWithFindings_insertExam(p)
    \/ createExamWithFindings_insertFinding(p)
    \/ createExamWithFindings_commit(p)
    \/ createExamWithFindings_rollback(p)

SpecCreate == InitCreate /\ [][NextCreate]_vars

\* The exam state and its report: the handlers of the system cards applied to
\* exam states of every shape, the report rendered anew after each.
InitRender ==
  /\ InitTables
  /\ budget = MaxEdits
  /\ examState \in ExamStates
  /\ completedView = completedSystems(examState.findings)
  /\ \E now \in Times : report = generateReport(examState, DefaultClinicName, now)

NextRender ==
  \E i \in DOMAIN examSystemsConfig :
    LET config == examSystemsConfig[i] IN
    /\ config.name \in KeysInPlay
    /\ \/ \E isNormal \in BOOLEAN : handleNormalToggle(config, isNormal)
       \/ \E s \in DOMAIN severityOptions : handleSeverityChange(config, severityOptions[s])
       \/ \E f \in DOMAIN config.fields :
            /\ config.fields[f].name \in FieldsInPlay
            /\ \E value \in FieldInputs(config.fields[f]) :
                 handleFieldChange(config, config.fields[f].name, value)
       \/ \E f \in DOMAIN config.fields :
            /\ config.fields[f].name \in FieldsInPlay
            /\ config.fields[f].type = "multiselect"
            /\ \E o \in 1..MaxOptions :
                 handleMultiselectToggle(config, config.fields[f].name, config.fields[f].options[o])
       \/ \E notes \in NotesValues : handleNotesChange(config, notes)

SpecRender == InitRender /\ [][NextRender]_vars

\* Saving from the New Exam page: the patient form is edited and the save
\* mutation runs its requests.
InitSave == InitTables /\ budget = MaxEdits /\ InitClientIdle

NextSave ==
  \/ \E input \in PatientInputs : handlePatientChange(input[1], input[2])
  \/ \E p \in Procs, user \in UserIds : saveExamMutation_postPatients(p, user)
  \/ \E p \in Procs : saveExamMutation_postExams(p)

SpecSave == InitSave /\ [][NextSave]_vars

\* The New Exam page: every setter of the exam state, from the state the
\* page starts with.
InitPage == InitTables /\ budget = MaxPageEdits /\ InitClientIdle

NextPage ==
  \/ \E input \in PatientInputs : handlePatientChange(input[1], input[2])
  \/ \E value \in ExaminerInputs : handleExaminerChange(value)
  \/ \E value \in ComplaintInputs : handlePresentingComplaintChange(value)
  \/ \E value \in PlanInputs : handlePlanNotesChange(value)
  \/ \E i \in DOMAIN examSystemsConfig :
       /\ examSystemsConfig[i].name \in KeysInPlay
       /\ CanEdit(examSystemsConfig[i])
       /\ handleSystemComplete(examSystemsConfig[i].name)
  \/ NextRender

SpecPage == InitPage /\ [][NextPage]_vars

\* The accounts: concurrent createUser and updateUser calls.
InitUsers ==
  /\ patients = [i \in PatientIds |-> NoRow]
  /\ users = InitUserRows
  /\ exams = [e \in ExamIds |-> NoRow]
  /\ examFindings = [f \in FindingIds |-> NoRow]
  /\ nextExamId = 1
  /\ nextFindingId = 1
  /\ pc = [p \in Procs |-> Idle]
  /\ result = NoResult
  /\ signOk = [e \in ExamIds |-> 0]
  /\ atSign = [e \in ExamIds |-> NoSnap]
  /\ sessions = {}
  /\ clinicSettings = [s \in SettingsIds |-> NoRow]
  /\ budget = MaxUserCalls
  /\ InitClientIdle

NextUsers ==
  \E p \in Procs :
    \/ \E insertUser \in InsertUserValues : createUser_getUserByUsername(p, insertUser)
    \/ createUser_getUserByEmail(p)
    \/ createUser_insert(p)
    \/ \E id \in UserIds, userData \in UpdateUserValues : updateUser_getUser(p, id, userData)
    \/ updateUser_getUserByUsername(p)
    \/ updateUser_getUserByEmail(p)
    \/ updateUser_update(p)

SpecUsers == InitUsers /\ [][NextUsers]_vars

\* The sessions and the guarded routes: logins, role changes, deactivations
\* and signatures requested concurrently.
InitAuth ==
  /\ patients = [i \in PatientIds |->
                   IF i = "p1" THEN [exists |-> TRUE, isActive |-> TRUE] ELSE NoRow]
  /\ \E second \in {"veterinarian", "admin"} : users = AuthUserRows(second)
  /\ exams = [e \in ExamIds |->
                IF e = 1 THEN examRowOf([patientId |-> "p1", status |-> Absent,
                                         examinerId |-> Null, planNotes |-> "n0"])
                ELSE NoRow]
  /\ examFindings = [f \in FindingIds |-> NoRow]
  /\ nextExamId = 2
  /\ nextFindingId = 1
  /\ pc = [p \in Procs |-> Idle]
  /\ result = NoResult
  /\ signOk = [e \in ExamIds |-> 0]
  /\ atSign = [e \in ExamIds |-> NoSnap]
  /\ sessions = {}
  /\ clinicSettings = [s \in SettingsIds |-> NoRow]
  /\ budget = MaxAuthCalls
  /\ InitClientIdle

NextAuth ==
  \E p \in Procs :
    \/ \E body \in LoginBodies : postLogin(p, body)
    \/ \E cookie \in Cookies, id \in UserIds \ {"tech"}, role \in RoleInputs :
         putRole_guards(p, cookie, id, role)
    \/ updateUserRole_getUser(p)
    \/ updateUserRole_update(p)
    \/ \E cookie \in Cookies, id \in UserIds \ {"tech"} : putDeactivate_guards(p, cookie, id)
    \/ deactivateUser_getUser(p)
    \/ deactivateUser_update(p)
    \/ \E cookie \in Cookies, id \in ExamIds : postSign_guards(p, cookie, id)
    \/ postSign_getExam(p)
    \/ postSign_signExam(p)
    \/ signExam_getUser(p)
    \/ signExam_update(p)

SpecAuth == InitAuth /\ [][NextAuth]_vars

\* The paginated lists: one call on each of the inputs.
InitList == InitTables /\ budget = MaxListCalls /\ InitClientIdle

NextList ==
  \E p \in Procs :
    \/ \E pagination \in PaginationInputs : getAllUsers(p, pagination)
    \/ \E query \in QueryInputs : getUsers(p, query)

SpecList == InitList /\ [][NextList]_vars

\* The clinic settings: concurrent PUT /api/clinic-settings requests of the
\* admin and the technician, both logged in, on a table without a row.
InitSettings ==
  /\ patients = [i \in PatientIds |-> NoRow]
  /\ users = AuthUserRows("veterinarian")
  /\ exams = [e \in ExamIds |-> NoRow]
  /\ examFindings = [f \in FindingIds |-> NoRow]
  /\ nextExamId = 1
  /\ nextFindingId = 1
  /\ pc = [p \in Procs |-> Idle]
  /\ result = NoResult
  /\ signOk = [e \in ExamIds |-> 0]
  /\ atSign = [e \in ExamIds |-> NoSnap]
  /\ sessions = {"adm", "tech"}
  /\ clinicSettings = [s \in SettingsIds |-> NoRow]
  /\ budget = MaxSettingsCalls
  /\ InitClientIdle

NextSettings ==
  \E p \in Procs :
    \/ \E cookie \in {"adm", "tech"}, body \in SettingsBodies :
         putClinicSettings_guards(p, cookie, body)
    \/ putClinicSettings_getClinicSettings(p)
    \/ createClinicSettings_getClinicSettings(p)
    \/ createClinicSettings_insert(p)
    \/ updateClinicSettings_select(p)
    \/ updateClinicSettings_update(p)

SpecSettings == InitSettings /\ [][NextSettings]_vars

\* ------------------------------------------------------------------ claims
\* C1: for every exam at most one signExam call ever succeeds, whatever the
\* interleaving of the calls.
C1_AtMostOneSignSucceeds == \A e \in ExamIds : signOk[e] <= 1

\* C2: once an exam has been signed, its row (status included) and the set and
\* contents of its findings stay what they were at signing.
C2_SignedExamImmutable ==
  \A e \in ExamIds :
    atSign[e].taken =>
      /\ exams[e] = atSign[e].row
      /\ getExamFindings(examFindings, e) = atSign[e].findings

\* C3: every exam row is created with status 'draft', and an exam has status
\* 'signed' only if a signExam call succeeded for it.
C3_SignedOnlyBySignExam ==
  [][\A e \in ExamIds :
       /\ (~exams[e].exists /\ exams'[e].exists) => exams'[e].status = "draft"
       /\ (exams'[e].exists /\ exams'[e].status = "signed") => signOk'[e] > 0]_vars

\* C4: a signExam call that finds the exam missing or already signed, or the
\* examiner missing or with a role other than veterinarian or admin, ends
\* rejected and leaves the exams table as it was; a call that succeeds leaves the
\* exam with status 'signed' and examinerId equal to the signer's id.
C4_SignExamContract ==
  [][\A p \in Procs :
       /\ \A id \in ExamIds, u \in UserIds :
            signExam_getExam(p, id, u) =>
              /\ exams' = exams
              /\ pc'[p] = Idle => result'.res # "ok"
              /\ (~exams[id].exists \/ exams[id].status = "signed") =>
                   pc'[p] = Idle /\ result'.op = "signExam"
       /\ (signExam_getUser(p) /\
             (~users[pc[p].examinerId].exists
                \/ users[pc[p].examinerId].role \notin {"veterinarian", "admin"})) =>
            pc'[p] = Idle /\ result'.op = "signExam" /\ result'.res # "ok"
       /\ (pc[p].op = "signExam" /\ pc'[p] = Idle) =>
            IF result'.res = "ok"
              THEN /\ exams'[pc[p].id].exists
                   /\ exams'[pc[p].id].status = "signed"
                   /\ exams'[pc[p].id].examinerId = pc[p].examinerId
                   /\ pc[p].examinerId \in {"vet", "adm"}
                   /\ \A e \in ExamIds \ {pc[p].id} : exams'[e] = exams[e]
              ELSE exams' = exams]_vars

\* A second signExam call on an exam has been rejected after the first one signed it.
C4_Witness ==
  /\ result.op = "signExam" /\ result.res = "AlreadySigned"
  /\ signOk[result.id] = 1
  /\ exams[result.id].status = "signed"
  /\ exams[result.id].examinerId \in {"vet", "adm"}

\* C5: createExamWithFindings is all-or-nothing: when it returns, the exam row
\* and one findings row per element of findings are stored; when it throws, and
\* at every moment before it ends, no row of the call is in the tables.
C5_AllOrNothing ==
  [][\A p \in Procs :
       /\ pc'[p].op = "createExamWithFindings" =>
            /\ ~exams'[pc'[p].eid].exists
            /\ \A f \in FindingIds :
                 (f >= pc'[p].fid /\ f < pc'[p].fid + Len(pc'[p].findingsData)) =>
                   ~examFindings'[f].exists
       /\ (pc[p].op = "createExamWithFindings" /\ pc'[p] = Idle) =>
            LET c == pc[p]
                n == Len(c.findingsData)
            IN IF result'.res = "ok"
                 THEN /\ exams'[c.eid] =
                           [exists |-> TRUE, patientId |-> c.examData.patientId,
                            status |-> IF c.examData.status = Absent
                                         THEN "draft" ELSE c.examData.status,
                            examinerId |-> c.examData.examinerId,
                            planNotes |-> c.examData.planNotes]
                      /\ \A k \in 1..n :
                           examFindings'[c.fid + k - 1] =
                             [exists |-> TRUE, examId |-> c.eid,
                              systemName |-> c.findingsData[k].systemName,
                              notes |-> c.findingsData[k].notes]
                      /\ Cardinality(getExamFindings(examFindings', c.eid)) = n
                 ELSE /\ ~exams'[c.eid].exists
                      /\ getExamFindings(examFindings', c.eid) = {}
                      /\ \A k \in 1..n : ~examFindings'[c.fid + k - 1].exists]_vars

\* A createExamWithFindings call has thrown after its exam row and at least one
\* findings row had been inserted, and nothing of it is stored.
C5_Witness ==
  /\ result.op = "createExamWithFindings" /\ result.res = "TransactionError"
  /\ result.inserted >= 2
  /\ \A e \in ExamIds : ~exams[e].exists
  /\ \A f \in FindingIds : ~examFindings[f].exists

C7_NoExamForInactivePatient ==
  [][\A e \in ExamIds :
       (~exams[e].exists /\ exams'[e].exists) =>
         /\ patients[exams'[e].patientId].exists
         /\ patients[exams'[e].patientId].isActive]_vars

\* ------------------------------------------------------- reading a report
\* The first line of the report equal to line.
FirstIndex(lines, line) ==
  CHOOSE i \in DOMAIN lines : lines[i] = line /\ \A j \in 1..(i - 1) : lines[j] # line

\* The lines between the rule under the Objective heading and the blank line
\* before the Assessment heading.
ObjectiveRegion(lines) ==
  SubSeq(lines, FirstIndex(lines, <<"OBJECTIVE - PHYSICAL EXAMINATION">>) + 2,
         FirstIndex(lines, <<"ASSESSMENT">>) - 2)

\* The lines between the rule under the Assessment heading and the blank line
\* before the Plan heading.
AssessmentRegion(lines) ==
  SubSeq(lines, FirstIndex(lines, <<"ASSESSMENT">>) + 2, FirstIndex(lines, <<"PLAN">>) - 2)

\* The objective part is a run of sections: a blank line, a heading, a body.
WellFormedObjective(lines) ==
  LET o == ObjectiveRegion(lines) IN
  /\ Len(o) % 3 = 0
  /\ \A n \in 1..(Len(o) \div 3) : o[3 * n - 2] = <<>> /\ o[3 * n - 1] # <<>>

ReportSections(lines) ==
  LET o == ObjectiveRegion(lines) IN
  [n \in 1..(Len(o) \div 3) |-> [heading |-> o[3 * n - 1], body |-> o[3 * n]]]

\* The heading a section of the system carries.
HeadingOf(config) == Str(toUpperCase(config.displayName))

\* The catalog systems the exam state holds a finding record for.
PresentSystems ==
  {i \in DOMAIN examSystemsConfig : examSystemsConfig[i].name \in objKeys(examState.findings)}

\* The place of system i among the present systems by ascending displayOrder.
OrderRank(i) ==
  1 + Cardinality({j \in PresentSystems :
                     examSystemsConfig[j].displayOrder < examSystemsConfig[i].displayOrder})

\* The first token of every detail line of a body: the tokens at the start
\* and after each ". " separator.
DetailLabels(body) ==
  LET P == {1} \cup {j + 1 : j \in {k \in DOMAIN body : body[k] = ". "}} IN
  [n \in 1..Cardinality(P) |->
     body[CHOOSE p \in P : Cardinality({q \in P : q < p}) = n - 1]]

\* Severity first, then the fields as the catalog declares them, Notes last.
LabelRank(config, token) ==
  IF token = "Severity: " THEN 0
  ELSE IF token = "Notes: " THEN Len(config.fields) + 1
  ELSE IF \E f \in DOMAIN config.fields : config.fields[f].label = token
    THEN CHOOSE f \in DOMAIN config.fields : config.fields[f].label = token
    ELSE Len(config.fields) + 2

\* line is the Assessment entry of the system called displayName.
IsAssessmentEntry(line, displayName) ==
  \E k \in 1..(Len(line) - 1) : line[k] = displayName /\ line[k + 1] = ": "

\* C8: the report has a section for a catalog system if and only if the exam
\* state's findings hold a record for it, and the sections follow one another
\* in ascending displayOrder, whatever the key order of the findings.
C8_SectionIffFinding ==
  LET sections == ReportSections(report) IN
  /\ WellFormedObjective(report)
  /\ Len(sections) = Cardinality(PresentSystems)
  /\ \A i \in PresentSystems :
       sections[OrderRank(i)].heading = HeadingOf(examSystemsConfig[i])

\* The findings hold the last system and then the first one, the second is
\* missing; the report has the first system's section, then the last one's.
C8_Witness ==
  /\ Len(examState.findings) = 2
  /\ examState.findings[1].k = "endocrine"
  /\ examState.findings[2].k = "general"
  /\ ~examState.findings[2].v.isNormal
  /\ Len(ReportSections(report)) = 2
  /\ ReportSections(report)[1].heading = <<"GENERAL & VITAL SIGNS">>
  /\ ReportSections(report)[2].heading = <<"ENDOCRINE/METABOLIC">>

\* C9: in the body of an abnormal finding the field lines stand in the order
\* the catalog declares the fields, after the Severity line and before the
\* Notes line, whatever the order of the finding's field values.
C9_FieldLinesInDeclaredOrder ==
  \A i \in PresentSystems :
    LET config == examSystemsConfig[i]
        finding == objGet(examState.findings, config.name)
        sections == ReportSections(report)
    IN
    ~finding.isNormal =>
      \A n \in DOMAIN sections :
        (/\ sections[n].heading = HeadingOf(config)
         /\ sections[n].body # <<"Abnormalities noted - see additional notes.">>)
        => LET labels == DetailLabels(sections[n].body) IN
           \A a, b \in DOMAIN labels :
             a < b => LabelRank(config, labels[a]) < LabelRank(config, labels[b])

\* C10: the section of a finding with isNormal = true has the system's
\* defaultNormalText as its whole body, whatever severity, field values and
\* notes the record carries, and the Assessment has no entry for the system.
C10_NormalBodyIsDefaultText ==
  \A i \in PresentSystems :
    LET config == examSystemsConfig[i]
        finding == objGet(examState.findings, config.name)
        sections == ReportSections(report)
        assessment == AssessmentRegion(report)
    IN
    finding.isNormal =>
      /\ \E n \in DOMAIN sections : sections[n].heading = HeadingOf(config)
      /\ \A n \in DOMAIN sections :
           sections[n].heading = HeadingOf(config)
             => sections[n].body = Str(config.defaultNormalText)
      /\ \A k \in DOMAIN assessment : ~IsAssessmentEntry(assessment[k], config.displayName)

\* A normal skin finding carrying a severity, field values and notes, rendered
\* next to no abnormal finding: its body is the default text.
C10_Witness ==
  LET finding == objGet(examState.findings, "skin") IN
  /\ hasFinding(finding)
  /\ finding.isNormal
  /\ Truthy(finding.severity)
  /\ Len(finding.findings) = 2
  /\ finding.notes # ""
  /\ ReportSections(report)[2].heading = <<"SKIN & COAT">>
  /\ ReportSections(report)[2].body = Str(examSystemsConfig[2].defaultNormalText)
  /\ AssessmentRegion(report) =
       << <<"No significant abnormalities detected on physical examination.">> >>

\* The catalog systems whose finding is abnormal and graded, in the order the
\* catalog lists them.
GradedSystems ==
  SelectSeq([i \in DOMAIN examSystemsConfig |-> i],
            LAMBDA i :
              LET finding == objGet(examState.findings, examSystemsConfig[i].name) IN
              /\ hasFinding(finding)
              /\ ~finding.isNormal
              /\ Truthy(finding.severity))

\* C11: the Assessment lists, numbered from 1 and in the order the systems
\* were processed, one entry "{displayName}: {severity} abnormality" for each
\* abnormal finding with a severity, and nothing else; without such a finding
\* it is the one sentence "No significant abnormalities detected on physical
\* examination."
C11_AssessmentList ==
  LET assessment == AssessmentRegion(report)
      graded == GradedSystems
  IN
  IF graded = <<>>
    THEN assessment =
           << <<"No significant abnormalities detected on physical examination.">> >>
    ELSE /\ Len(assessment) = Len(graded) + 1
         /\ assessment[1] = <<"Key abnormal findings:">>
         /\ \A n \in DOMAIN graded :
              LET config == examSystemsConfig[graded[n]]
                  finding == objGet(examState.findings, config.name)
              IN assessment[n + 1] =
                   <<"  ">> \o NumberToString(n) \o <<". ", config.displayName, ": ",
                     finding.severity.v, " abnormality">>

\* The findings hold the last system before the first one, both severe: the
\* Assessment lists the first system as 1 and the last one as 2.
C11_Witness ==
  /\ Len(examState.findings) >= 2
  /\ examState.findings[1].k = "endocrine"
  /\ examState.findings[2].k = "general"
  /\ Len(GradedSystems) = 2
  /\ AssessmentRegion(report) =
       << <<"Key abnormal findings:">>,
          <<"  ", "1", ". ", "General & Vital Signs", ": ", "Severe", " abnormality">>,
          <<"  ", "2", ". ", "Endocrine/Metabolic", ": ", "Severe", " abnormality">> >>

\* The detail lines of a body: the runs of tokens between the ". " separators,
\* without the closing period.
BodyLines(body) ==
  LET P == {1} \cup {j + 1 : j \in {k \in DOMAIN body : body[k] = ". "}}
      start(n) == CHOOSE p \in P : Cardinality({q \in P : q < p}) = n - 1
      end(n) == IF n = Cardinality(P) THEN Len(body) - 1 ELSE start(n + 1) - 2
  IN [n \in 1..Cardinality(P) |-> SubSeq(body, start(n), end(n))]

\* The detail lines of a body that are neither the Severity nor the Notes line.
FieldLinesOf(body) ==
  {BodyLines(body)[n] : n \in {m \in DOMAIN BodyLines(body) :
                                 /\ BodyLines(body)[m][1] # "Severity: "
                                 /\ BodyLines(body)[m][1] # "Notes: "}}

\* The recorded value yields a line: it is not undefined, null, the empty
\* string, false or an empty array.
Printable(value) ==
  /\ value.t \notin {"undefined", "null"}
  /\ ~(value.t = "string" /\ value.v = "")
  /\ ~(value.t = "boolean" /\ ~value.v)
  /\ ~(value.t = "array" /\ value.v = <<>>)

\* The line of a printable value of the field, by the shape of the value; a
\* unit follows the value after the tokens of between.
ShapedLine(field, value, between) ==
  IF value.t = "array"
    THEN <<field.label, ": ">> \o join([i \in DOMAIN value.v |-> <<value.v[i]>>], <<", ">>)
  ELSE IF value.t = "boolean"
    THEN <<field.label, ": Yes">>
  ELSE <<field.label, ": ">>
         \o (IF value.t = "number" THEN NumberToString(value.v) ELSE <<value.v>>)
         \o (IF field.unit # "" THEN between \o <<field.unit>> ELSE <<>>)

\* The lines the recorded values of the system's fields yield.
ShapedLines(config, entries, between) ==
  {ShapedLine(config.fields[f], entries[n].v, between) :
     <<f, n>> \in {x \in (DOMAIN config.fields) \X (DOMAIN entries) :
                     /\ config.fields[x[1]].name = entries[x[2]].k
                     /\ Printable(entries[x[2]].v)}}

\* The field lines of every abnormal section are the shaped lines of the
\* finding's recorded values.
FieldLinesShaped(between) ==
  \A i \in PresentSystems :
    LET config == examSystemsConfig[i]
        finding == objGet(examState.findings, config.name)
        sections == ReportSections(report)
    IN
    ~finding.isNormal =>
      \A n \in DOMAIN sections :
        (/\ sections[n].heading = HeadingOf(config)
         /\ sections[n].body # <<"Abnormalities noted - see additional notes.">>)
        => FieldLinesOf(sections[n].body)
             = ShapedLines(config, findingsOrEmpty(finding), between)

\* C12 as stated: a recorded value of an abnormal finding is printed by its
\* shape: a non-empty array as the label and its elements joined by ", ", true
\* as the label and "Yes", any other present value as "{label}: {value}{unit}"
\* with the unit, if the field has one, right after the value; undefined,
\* null, "", false and an empty array print nothing.
C12_FieldShapes == FieldLinesShaped(<<>>)

\* C12 as amended: the same, with a space between the value and the unit:
\* "{label}: {value} {unit}".
C12_FieldShapesUnitSpaced == FieldLinesShaped(<<" ">>)

\* An abnormal general finding with a temperature, and an abnormal skin
\* finding with a ticked checkbox and a chosen option, both rendered.
C12_Witness ==
  LET general == objGet(examState.findings, "general")
      sections == ReportSections(report)
  IN
  /\ hasFinding(general)
  /\ ~general.isNormal
  /\ objGet(general.findings, "temperature") = JsNumber(101)
  /\ sections[1].heading = <<"GENERAL & VITAL SIGNS">>
  /\ <<"Temperature", ": ", "1", "0", "1", " ", "degF">> \in FieldLinesOf(sections[1].body)


\* The elements of a sequence.
Range(s) == {s[i] : i \in DOMAIN s}

\* The sentence that stands for an abnormal finding without detail lines.
FallbackBody == <<"Abnormalities noted - see additional notes.">>

\* The number of detail lines the finding yields: one for a set severity, one
\* for every printable value of a field of the system, one for non-empty notes.
DetailCount(config, finding) ==
  (IF Truthy(finding.severity) THEN 1 ELSE 0)
  + Cardinality({n \in DOMAIN findingsOrEmpty(finding) :
                   /\ Printable(findingsOrEmpty(finding)[n].v)
                   /\ \E f \in DOMAIN config.fields :
                        config.fields[f].name = findingsOrEmpty(finding)[n].k})
  + (IF finding.notes # "" THEN 1 ELSE 0)

\* The body is detail lines joined by ". " and closed by a period: as many
\* lines as the finding yields, none of them empty, the Severity line first
\* and the Notes line last when the finding has them.
JoinedBody(config, finding, body) ==
  /\ body # FallbackBody
  /\ body[Len(body)] = "."
  /\ Len(BodyLines(body)) = DetailCount(config, finding)
  /\ \A m \in DOMAIN BodyLines(body) :
       /\ BodyLines(body)[m] # <<>>
       /\ ". " \notin Range(BodyLines(body)[m])
  /\ Truthy(finding.severity)
       => BodyLines(body)[1] = <<"Severity: ", finding.severity.v>>
  /\ finding.notes # ""
       => BodyLines(body)[Len(BodyLines(body))] = <<"Notes: ", finding.notes>>
  /\ FieldLinesOf(body) = ShapedLines(config, findingsOrEmpty(finding), <<" ">>)

\* C13: the body of the section of an abnormal finding is the fallback
\* sentence exactly when the severity is unset, no field value yields a line
\* and the notes are empty; in every other abnormal case it is the detail
\* lines joined with ". " and closed by a period.
C13_AbnormalBody ==
  \A i \in PresentSystems :
    LET config == examSystemsConfig[i]
        finding == objGet(examState.findings, config.name)
        sections == ReportSections(report)
    IN
    ~finding.isNormal =>
      \A n \in DOMAIN sections :
        sections[n].heading = HeadingOf(config) =>
          IF DetailCount(config, finding) = 0
            THEN sections[n].body = FallbackBody
            ELSE JoinedBody(config, finding, sections[n].body)

\* Both cases in one report: an abnormal general finding with nothing
\* recorded renders the fallback sentence, an abnormal skin finding with a
\* severity, a field value and notes renders three joined lines.
C13_Witness ==
  LET general == objGet(examState.findings, "general")
      skin == objGet(examState.findings, "skin")
      sections == ReportSections(report)
  IN
  /\ hasFinding(general) /\ hasFinding(skin)
  /\ ~general.isNormal /\ ~skin.isNormal
  /\ DetailCount(examSystemsConfig[1], general) = 0
  /\ Truthy(skin.severity) /\ skin.notes # ""
  /\ \E a, b \in DOMAIN sections :
       /\ sections[a].heading = <<"GENERAL & VITAL SIGNS">>
       /\ sections[a].body = FallbackBody
       /\ sections[b].heading = HeadingOf(CHOOSE c \in Range(examSystemsConfig) : c.name = "skin")
       /\ Len(BodyLines(sections[b].body)) = 3


\* No field of the patient form holds a value: every property of
\* examState.patient is absent or falsy.
PatientUnset == \A n \in DOMAIN examState.patient : ~Truthy(examState.patient[n].v)

\* The seven lines under the rule of the Patient Information section.
PatientFieldLines ==
  SubSeq(report, FirstIndex(report, <<"PATIENT INFORMATION">>) + 2,
                 FirstIndex(report, <<"PATIENT INFORMATION">>) + 8)

\* The patient lines with the placeholder in every field, the neuter status
\* showing the placeholder neuter.
PlaceholderLines(neuter) ==
  << <<"Patient Name: ", "Not specified">>,
     <<"Species: ", "Not specified">>,
     <<"Breed: ", "Not specified">>,
     <<"Sex: ", "Not specified", " (", neuter, ")">>,
     <<"Age: ", "Not specified">>,
     <<"Weight: ", "Not specified">>,
     <<"Client: ", "Not specified">> >>

\* C14 as stated: when every patient field is unset, the report is produced
\* and every field of the Patient Information section (name, species, breed,
\* sex, neuter status, age, weight, client) shows "Not specified".
C14_AllNotSpecified ==
  PatientUnset => PatientFieldLines = PlaceholderLines("Not specified")

\* C14 as amended: the same, except that the neuter status, printed in
\* parentheses after the sex, shows "Unknown".
C14_NotSpecifiedNeuterUnknown ==
  PatientUnset => PatientFieldLines = PlaceholderLines("Unknown")

\* The patient name was typed and cleared again: the only property of the
\* patient is an empty name, and the report was rendered from it.
C14_Witness ==
  /\ examState.patient = << [k |-> "name", v |-> JsString("")] >>
  /\ budget < MaxEdits
  /\ PatientFieldLines[1] = <<"Patient Name: ", "Not specified">>
  /\ PatientFieldLines[4] = <<"Sex: ", "Not specified", " (", "Unknown", ")">>


\* The names of the catalog's systems.
CatalogNames == {examSystemsConfig[i].name : i \in DOMAIN examSystemsConfig}

\* The field names the catalog declares for the system.
FieldNames(systemName) ==
  UNION {{examSystemsConfig[i].fields[f].name : f \in DOMAIN examSystemsConfig[i].fields} :
           i \in {j \in DOMAIN examSystemsConfig : examSystemsConfig[j].name = systemName}}

\* The exam state in the shape the page builds: no finding under a name the
\* catalog lacks, every finding with its field-value map, and in the map no
\* value under a name the system's field definitions lack.
Tidy(state) ==
  LET inCatalog(entry) == entry.k \in CatalogNames
      tidyFinding(name, finding) ==
        [systemName |-> finding.systemName, isNormal |-> finding.isNormal,
         severity |-> finding.severity, notes |-> finding.notes,
         findings |-> SelectSeq(findingsOrEmpty(finding),
                                LAMBDA e : e.k \in FieldNames(name))]
      kept == SelectSeq(state.findings, inCatalog)
  IN [state EXCEPT !.findings =
        [n \in DOMAIN kept |-> [k |-> kept[n].k, v |-> tidyFinding(kept[n].k, kept[n].v)]]]

\* The exam state has one of the shapes the page never builds.
Untidy == Tidy(examState) # examState

\* The lines of a report before its footer.
BeforeFooter(lines) == SubSeq(lines, 1, Len(lines) - 4)

\* The report has all its parts: the six headings in their order, a
\* well-formed objective part, and the footer with the timestamp line.
CompleteReport(lines) ==
  LET at(heading) == FirstIndex(lines, <<heading>>)
      has(heading) == \E i \in DOMAIN lines : lines[i] = <<heading>>
  IN
  /\ \A heading \in {"PATIENT INFORMATION", "SUBJECTIVE", "OBJECTIVE - PHYSICAL EXAMINATION",
                     "ASSESSMENT", "PLAN"} : has(heading)
  /\ at("PATIENT INFORMATION") < at("SUBJECTIVE")
  /\ at("SUBJECTIVE") < at("OBJECTIVE - PHYSICAL EXAMINATION")
  /\ at("OBJECTIVE - PHYSICAL EXAMINATION") < at("ASSESSMENT")
  /\ at("ASSESSMENT") < at("PLAN")
  /\ WellFormedObjective(lines)
  /\ AssessmentRegion(lines) # <<>>
  /\ Len(lines) >= at("PLAN") + 6
  /\ lines[Len(lines)] = <<DoubleRule>>
  /\ lines[Len(lines) - 1][1] = "Report generated: "
  /\ lines[Len(lines) - 2] = <<DoubleRule>>

\* C15: the report of an exam state is complete whatever the shape of its
\* findings, and up to the footer it is the report of the tidy state: a
\* finding under a name the catalog lacks adds no section and no Assessment
\* entry, a value under an unknown field name adds no detail line, and a
\* finding without its field-value map is rendered as one with an empty map.
C15_ShapeTolerance ==
  /\ CompleteReport(report)
  /\ \A now \in Times :
       BeforeFooter(report)
         = BeforeFooter(generateReport(Tidy(examState), DefaultClinicName, now))

\* An orphaned finding, a finding without its map and a finding with a value
\* under an unknown field name in one exam state: the report has the two
\* sections of the catalog systems and their two Assessment entries.
C15_Witness ==
  LET general == objGet(examState.findings, "general")
      skin == objGet(examState.findings, "skin")
      sections == ReportSections(report)
  IN
  /\ OrphanName \in objKeys(examState.findings)
  /\ hasFinding(skin) /\ "findings" \notin DOMAIN skin /\ ~skin.isNormal
  /\ hasFinding(general) /\ UnknownFieldName \in objKeys(general.findings)
  /\ Len(sections) = 2
  /\ sections[1].body
       = <<"Severity: ", "Severe", ". ", "Temperature", ": ", "1", "0", "1", " ", "degF", ".">>
  /\ sections[2].body = <<"Severity: ", "Severe", ".">>
  /\ Len(AssessmentRegion(report)) = 3


\* The line is the timestamp line of the footer.
IsTimestampLine(line) == line # <<>> /\ line[1] = "Report generated: "

\* Two reports are the same on every line but the timestamp line, and each
\* has a single timestamp line.
SameButTimestamp(a, b) ==
  /\ Len(a) = Len(b)
  /\ \A i \in DOMAIN a : a[i] # b[i] => IsTimestampLine(a[i]) /\ IsTimestampLine(b[i])
  /\ Cardinality({i \in DOMAIN a : IsTimestampLine(a[i])}) = 1
  /\ Cardinality({i \in DOMAIN b : IsTimestampLine(b[i])}) = 1

\* C16: two renderings of the same exam state, with the same catalog and
\* clinic name, are the same on every line except the single "Report
\* generated:" line: when a handler stores an exam state equal to the one
\* held and the report is rendered again at another time, the new report
\* differs from the old one in that line at most. The exam state held after
\* the rendering is the state that was rendered.
C16_Deterministic ==
  [][/\ examState' = examState => SameButTimestamp(report, report')
     /\ \E now \in Times : report' = generateReport(examState', DefaultClinicName, now)]_vars

\* The notes of a system were set to what they were: the exam state is the
\* initial one again, and the second rendering carries the later time.
C16_Witness ==
  /\ budget < MaxEdits
  /\ examState = createInitialExamState(CHOOSE d \in ExamDates : TRUE)
  /\ report[Len(report) - 1] = <<"Report generated: ", "1/15/2024, 10:32:00 AM">>
  /\ SameButTimestamp(report, generateReport(examState, DefaultClinicName, "1/15/2024, 10:31:00 AM"))


\* C17: a step of handleNormalToggle to true leaves the finding as it was
\* except for isNormal = true and an unset severity; a step to false sets
\* isNormal = false and leaves severity, field values and notes as they
\* were. Field values therefore outlast a round trip through abnormal and
\* back to normal.
C17_ToggleRule ==
  [][\A i \in DOMAIN examSystemsConfig, isNormal \in BOOLEAN :
       handleNormalToggle(examSystemsConfig[i], isNormal) =>
         LET before == objGet(examState.findings, examSystemsConfig[i].name)
             after == objGet(examState'.findings, examSystemsConfig[i].name)
         IN IF isNormal
              THEN after = [before EXCEPT !.isNormal = TRUE, !.severity = JsUndefined]
              ELSE /\ ~after.isNormal
                   /\ after.severity = before.severity
                   /\ after.findings = before.findings
                   /\ after.notes = before.notes
                   /\ after.systemName = before.systemName]_vars

\* After two toggles: the general finding of the initial exam state was made
\* abnormal, and the skin finding is normal with no severity and with the
\* field values and notes it was given while abnormal.
C17_Witness ==
  LET general == objGet(examState.findings, "general")
      skin == objGet(examState.findings, "skin")
  IN
  /\ budget = 0
  /\ Len(examState.findings) = Len(examSystemsConfig)
  /\ general = [initialFinding("general") EXCEPT !.isNormal = FALSE]
  /\ skin.isNormal /\ skin.severity = JsUndefined
  /\ skin.findings = << [k |-> "lesionType", v |-> JsArray(<<"Papules", "Crusts">>)],
                        [k |-> "lesions", v |-> JsBoolean(FALSE)] >>
  /\ skin.notes = "Pruritic for two weeks"


\* The finding has a severity: a value other than undefined, null and "".
SeveritySet(finding) == finding.severity \notin {JsUndefined, JsNull, JsString("")}

\* C18: in every reachable state of the page the completed-systems view is
\* exactly the set of systems whose finding is normal, or abnormal with a
\* severity set. What handleSystemComplete stores in the exam state, and the
\* notes and field values of a finding, have no part in it: an abnormal
\* system without severity is not in the view.
C18_CompletedView ==
  /\ completedView
       = {examState.findings[n].k :
            n \in {m \in DOMAIN examState.findings :
                     \/ examState.findings[m].v.isNormal
                     \/ /\ ~examState.findings[m].v.isNormal
                        /\ SeveritySet(examState.findings[m].v)}}
  /\ \A n \in DOMAIN examState.findings :
       (~examState.findings[n].v.isNormal /\ ~SeveritySet(examState.findings[n].v))
         => examState.findings[n].k \notin completedView

\* The general finding was made abnormal, given notes and marked complete: it
\* has no severity, the exam state lists it as completed, the view does not.
C18_Witness ==
  LET general == objGet(examState.findings, "general") IN
  /\ ~general.isNormal
  /\ ~SeveritySet(general)
  /\ general.notes # ""
  /\ "general" \in examState.completedSystems
  /\ "general" \notin completedView
  /\ "skin" \in completedView


\* The shape C19 gives the initial exam state.
InitialShape(state) ==
  /\ objKeys(state.findings) = CatalogNames
  /\ Len(state.findings) = Len(examSystemsConfig)
  /\ \A n \in DOMAIN state.findings :
       LET finding == state.findings[n].v IN
       /\ DOMAIN finding = {"systemName", "isNormal", "severity", "findings", "notes"}
       /\ finding.systemName = state.findings[n].k
       /\ finding.isNormal = TRUE
       /\ finding.severity = JsUndefined
       /\ finding.findings = <<>>
       /\ finding.notes = ""
  /\ state.patient = <<>>
  /\ state.examiner = ""
  /\ state.presentingComplaint = ""
  /\ state.planNotes = ""

\* C19: the state createInitialExamState returns, which the page holds until
\* its first edit, has exactly one finding per catalog system and no other,
\* each with systemName equal to its key, isNormal = true, no severity, an
\* empty field-value map and empty notes; the patient is empty and examiner,
\* presenting complaint and plan notes are empty strings.
C19_InitialExamState ==
  /\ \A examDate \in ExamDates : InitialShape(createInitialExamState(examDate))
  /\ budget = MaxPageEdits => InitialShape(examState)

\* The page before its first edit: thirteen sections, all of them normal, and
\* every system in the completed view.
C19_Witness ==
  /\ budget = MaxPageEdits
  /\ examState = createInitialExamState(CHOOSE d \in ExamDates : TRUE)
  /\ Len(examState.findings) = 13
  /\ Len(ReportSections(report)) = 13
  /\ completedView = CatalogNames
  /\ PatientFieldLines[1] = <<"Patient Name: ", "Not specified">>


\* The step leaves every part of the exam state but the named one as it was.
OnlyPart(part) ==
  \A other \in DOMAIN examState \ {part} : examState'[other] = examState[other]

\* The step changes of the exam state at most patient[field], which becomes
\* value.
OnlyPatientField(field, value) ==
  /\ OnlyPart("patient")
  /\ objGet(examState'.patient, field) = value
  /\ \A other \in (objKeys(examState.patient) \cup objKeys(examState'.patient)) \ {field} :
       objGet(examState'.patient, other) = objGet(examState.patient, other)

\* The step changes of the exam state at most findings[systemName].
OnlyFinding(systemName) ==
  /\ OnlyPart("findings")
  /\ objKeys(examState'.findings) = objKeys(examState.findings) \cup {systemName}
  /\ \A n \in DOMAIN examState.findings :
       examState.findings[n].k # systemName =>
         /\ n \in DOMAIN examState'.findings
         /\ examState'.findings[n] = examState.findings[n]

\* C20: every setter of the exam state changes the one part it targets and
\* nothing else: handlePatientChange(field, v) only patient[field],
\* handleFindingChange(system, f) only findings[system], the examiner,
\* presenting-complaint and plan-notes handlers only their own field; and
\* whatever step changes the findings changes the finding of one system.
C20_SettersChangeOnePart ==
  [][/\ \A input \in PatientInputs :
          handlePatientChange(input[1], input[2])
            => OnlyPatientField(input[1], JsString(input[2]))
     /\ \A i \in DOMAIN examSystemsConfig :
          LET systemName == examSystemsConfig[i].name IN
          (/\ systemName \in objKeys(examState'.findings)
           /\ handleFindingChange(systemName, objGet(examState'.findings, systemName)))
            => OnlyFinding(systemName)
     /\ \A value \in ExaminerInputs :
          handleExaminerChange(value)
            => OnlyPart("examiner") /\ examState'.examiner = value
     /\ \A value \in ComplaintInputs :
          handlePresentingComplaintChange(value)
            => OnlyPart("presentingComplaint") /\ examState'.presentingComplaint = value
     /\ \A value \in PlanInputs :
          handlePlanNotesChange(value)
            => OnlyPart("planNotes") /\ examState'.planNotes = value
     /\ examState'.findings # examState.findings
          => \E i \in DOMAIN examSystemsConfig : OnlyFinding(examSystemsConfig[i].name)]_vars

\* Three setters have acted on the initial exam state: the patient has a name
\* and a species, the skin finding is abnormal, and every other part and
\* every other finding is as createInitialExamState left it.
C20_Witness ==
  LET initial == createInitialExamState(CHOOSE d \in ExamDates : TRUE) IN
  /\ budget = 0
  /\ examState =
       [initial EXCEPT
          !.patient = << [k |-> "name", v |-> JsString("Rex")],
                         [k |-> "species", v |-> JsString("canine")] >>,
          !.findings = objSet(@, "skin", [initialFinding("skin") EXCEPT !.isNormal = FALSE])]


\* C21: an exam has at most one finding per body system: the exam state of
\* the page holds exactly one finding per catalog system, keyed by its system
\* name, and no exam has two stored finding rows with the same systemName.
C21_OneFindingPerSystem ==
  /\ objKeys(examState.findings) = CatalogNames
  /\ Len(examState.findings) = Cardinality(CatalogNames)
  /\ \A n \in DOMAIN examState.findings :
       examState.findings[n].v.systemName = examState.findings[n].k
  /\ \A f, g \in FindingIds :
       (/\ examFindings[f].exists /\ examFindings[g].exists
        /\ examFindings[f].examId = examFindings[g].examId
        /\ examFindings[f].systemName = examFindings[g].systemName)
         => f = g


\* The catalog is well formed: system names pairwise distinct, displayOrder
\* values pairwise distinct and strictly ascending in array order, field
\* names distinct within a system, options of every select and multiselect
\* field non-empty.
WellFormedCatalog(catalog) ==
  /\ \A i, j \in DOMAIN catalog : catalog[i].name = catalog[j].name => i = j
  /\ \A i, j \in DOMAIN catalog : catalog[i].displayOrder = catalog[j].displayOrder => i = j
  /\ \A i, j \in DOMAIN catalog : i < j => catalog[i].displayOrder < catalog[j].displayOrder
  /\ \A i \in DOMAIN catalog :
       LET fields == catalog[i].fields IN
       /\ \A f, g \in DOMAIN fields : fields[f].name = fields[g].name => f = g
       /\ \A f \in DOMAIN fields :
            fields[f].type \in {"select", "multiselect"} => Len(fields[f].options) > 0

\* C22: the catalog is well formed, and it is the catalog the page and the
\* renderer work from in every reachable state: the exam state holds the
\* findings of its systems in array order, and the report has their sections
\* under their headings in that order.
C22_CatalogWellFormed ==
  /\ WellFormedCatalog(examSystemsConfig)
  /\ [n \in DOMAIN examState.findings |-> examState.findings[n].k]
       = [i \in DOMAIN examSystemsConfig |-> examSystemsConfig[i].name]
  /\ [n \in DOMAIN ReportSections(report) |-> ReportSections(report)[n].heading]
       = [i \in DOMAIN examSystemsConfig |-> HeadingOf(examSystemsConfig[i])]

\* After three edits of system cards the report still has the thirteen
\* sections of the catalog, the last one the thirteenth system's.
C22_Witness ==
  /\ budget = 0
  /\ ~objGet(examState.findings, "skin").isNormal
  /\ objGet(objGet(examState.findings, "skin").findings, "pruritus") = JsString("None")
  /\ Len(ReportSections(report)) = 13
  /\ ReportSections(report)[13].heading = <<"ENDOCRINE/METABOLIC">>
  /\ examSystemsConfig[13].displayOrder = 13


\* No two users share a username, and no two share an email.
UsersUnique ==
  \A u, v \in UserIds :
    (users[u].exists /\ users[v].exists /\ u # v)
      => users[u].username # users[v].username /\ users[u].email # users[v].email

\* The step ends a call: a call in flight ends, or a call ends at its first
\* await.
CallEnds ==
  \/ \E p \in Procs : pc[p] # Idle /\ pc'[p] = Idle
  \/ budget' < budget /\ pc' = pc

\* C23: after any createUser and updateUser calls, concurrent ones included,
\* no two users share a username or an email, and a call that does not get
\* its write (other than for a missing user) ends with DuplicateError and
\* leaves the users table as it was.
C23_DuplicateUserRejected ==
  /\ []UsersUnique
  /\ [][CallEnds =>
          /\ result'.res \in {"ok", "NotFound", "DuplicateError"}
          /\ result'.res # "ok" => users' = users]_vars


\* ------------------------------------------------------- guarded routes
GuardedRoutes == {"putRole", "putDeactivate", "postSign"}
AllowedRoles(op) == IF op = "postSign" THEN VET_OR_ADMIN ELSE ADMIN_ONLY

\* The request with this cookie is authenticated; its user's stored role.
Authenticated(cookie) == cookie \in sessions /\ users[cookie].exists
StoredRoleIn(cookie, allowedRoles) == users[cookie].role \in allowedRoles

\* A request to route op is answered by its guards or before its first
\* storage call.
AnsweredAtOnce(op) == budget' < budget /\ pc' = pc /\ result'.op = op

\* C24: a role-guarded handler runs only for an authenticated request whose
\* user's role, as stored when the request arrives, is in the route's list;
\* every other request ends with 401 (not authenticated) or 403 (role not in
\* the list) and touches no table.  signExam is entered from POST
\* /api/exams/:id/sign only for a veterinarian or an admin.
C24_RoleGuards ==
  [][\A op \in GuardedRoutes :
       /\ AnsweredAtOnce(op) =>
            /\ result'.res = "401" <=> ~Authenticated(result'.cookie)
            /\ result'.res = "403" <=>
                 Authenticated(result'.cookie) /\ ~StoredRoleIn(result'.cookie, AllowedRoles(op))
            /\ tables' = tables
       /\ \A p \in Procs :
            (pc[p] = Idle /\ pc'[p].op = op) =>
              /\ Authenticated(pc'[p].user.id)
              /\ StoredRoleIn(pc'[p].user.id, AllowedRoles(op))
              /\ pc'[p].user.role = users[pc'[p].user.id].role
       /\ \A p \in Procs :
            (pc[p].op = "postSign" /\ pc'[p].op = "signExam") =>
              pc[p].user.role \in {"veterinarian", "admin"}]_vars

\* A veterinarian has signed the exam and the technician's request to sign
\* was answered 403.
C24_Witness ==
  /\ result.op = "postSign" /\ result.res = "403" /\ result.cookie = "tech"
  /\ exams[1].status = "signed" /\ exams[1].examinerId = "vet"
  /\ users["vet"].role = "veterinarian"


\* ------------------------------------------------------- login
\* A login request is answered in this step.
LoginAnswered == budget' < budget /\ pc' = pc /\ result'.op = "postLogin"

\* The users whose username, isActive and password let this body in.
LetIn(body) ==
  {u \in UserIds : /\ users[u].exists
                   /\ users[u].username = body.username
                   /\ users[u].isActive
                   /\ verifyPassword(body.password, users[u].password)}

\* Sessions are made by logins only, for the user the body lets in, and no
\* user object of a response or of a request in flight has a password.
SessionRule ==
  /\ sessions' # sessions =>
       /\ LoginAnswered
       /\ result'.res = "200"
       /\ \E u \in LetIn(result'.body) : sessions' = sessions \cup {u} /\ result'.user.id = u
  /\ (LoginAnswered /\ result'.res = "200") => "password" \notin DOMAIN result'.user
  /\ \A p \in Procs :
       "user" \in DOMAIN pc'[p] => "password" \notin DOMAIN pc'[p].user

C26_ActiveAdminRemains ==
  \E u \in UserIds : users[u].exists /\ users[u].role = "admin" /\ users[u].isActive


\* ------------------------------------------------------- normal means no severity
\* C27: on the New Exam page, whatever the cards have been used for, a finding
\* marked normal has no severity.
C27_NormalHasNoSeverity ==
  \A n \in DOMAIN examState.findings :
    examState.findings[n].v.isNormal => examState.findings[n].v.severity = JsUndefined

\* Skin is abnormal and severe while the general finding, with notes, is normal.
C27_Witness ==
  /\ budget = 0
  /\ ~objGet(examState.findings, "skin").isNormal
  /\ objGet(examState.findings, "skin").severity = JsString("Severe")
  /\ objGet(examState.findings, "general").isNormal
  /\ objGet(examState.findings, "general").notes # ""


\* ------------------------------------------------------- the closing sentence
NoAbnormalities == <<"No significant abnormalities detected on physical examination.">>

\* The findings that are abnormal and graded, and those abnormal and ungraded.
Graded(finding) == ~finding.isNormal /\ SeveritySet(finding)
Ungraded(finding) == ~finding.isNormal /\ ~SeveritySet(finding)

\* C28: the Assessment section has the sentence "No significant abnormalities
\* detected on physical examination." exactly when no finding is abnormal with
\* a severity, and no line of it names a system whose finding is abnormal
\* without a severity.
C28_SentenceIffNoneGraded ==
  LET assessment == AssessmentRegion(report) IN
  /\ NoAbnormalities \in Range(assessment) <=>
       ~\E n \in DOMAIN examState.findings : Graded(examState.findings[n].v)
  /\ \A i \in DOMAIN examSystemsConfig :
       LET config == examSystemsConfig[i] IN
       (/\ config.name \in objKeys(examState.findings)
        /\ Ungraded(objGet(examState.findings, config.name))) =>
         \A l \in DOMAIN assessment : config.displayName \notin Range(assessment[l])

\* Skin is abnormal without a severity; its pruritus and its notes are in the
\* Objective section and the Assessment section is the sentence alone.
C28_Witness ==
  /\ Ungraded(objGet(examState.findings, "skin"))
  /\ \E l \in DOMAIN ObjectiveRegion(report) :
       /\ "Pruritic for two weeks" \in Range(ObjectiveRegion(report)[l])
       /\ "Pruritus" \in Range(ObjectiveRegion(report)[l])
  /\ AssessmentRegion(report) = <<NoAbnormalities>>


\* ------------------------------------------------------- pagination
\* C29: whatever the pagination input, the normalized page is at least 1 (1
\* when none is given), the limit is between 1 and 100 (20 when none is given),
\* the offset is (page - 1) * limit, totalPages is the least number of pages
\* of that limit that hold total rows, and hasMore says that the page is
\* before the last one: it is false on the last page and beyond it.
C29_Pagination ==
  result.op = "getAllUsers" =>
    LET n == result.normalized
        g == result.pagination
    IN /\ n.page >= 1
       /\ result.params.page = JsUndefined => n.page = 1
       /\ n.limit >= 1 /\ n.limit <= 100
       /\ result.params.limit = JsUndefined => n.limit = 20
       /\ n.offset = (n.page - 1) * n.limit
       /\ g.page = n.page /\ g.limit = n.limit
       /\ g.totalPages >= 0
       /\ g.totalPages * g.limit >= g.total
       /\ g.totalPages > 0 => (g.totalPages - 1) * g.limit < g.total
       /\ g.hasMore <=> g.page < g.totalPages
       /\ g.page >= g.totalPages => ~g.hasMore

\* Page 3 of 250 rows, asked for with limit 250: the limit is 100, the page is
\* the last of three and reports no more.
C29_Witness ==
  /\ result.op = "getAllUsers"
  /\ result.params = [page |-> JsNumber(3), limit |-> JsNumber(250)]
  /\ result.normalized = [page |-> 3, limit |-> 100, offset |-> 200]
  /\ result.pagination = [page |-> 3, limit |-> 100, total |-> 250, totalPages |-> 3,
                          hasMore |-> FALSE]


\* ------------------------------------------------------- one settings row
\* C30: the clinic_settings table never holds more than one row, whatever PUT
\* /api/clinic-settings requests were served, one after the other or at once.
C30_OneSettingsRow ==
  Cardinality({s \in SettingsIds : clinicSettings[s].exists}) <= 1

====
